---------------------------- MODULE Spec2Model ----------------------------
(***************************************************************************)
(* A model of the terminal-emulator core of VoidCLI:                       *)
(*   - TerminalParser  (crates/term/src/parser.rs): the resumable byte     *)
(*     parser for ANSI/VT escape sequences;                                *)
(*   - VirtualTerminal (crates/term/src/vt.rs): the screen buffer.         *)
(* Bytes and characters are integers (their code), strings are sequences   *)
(* of characters, Option<T> is a sequence of length 0 (None) or 1 (Some).  *)
(***************************************************************************)
EXTENDS Integers, Sequences, FiniteSets, TLC

(***************************************************************************)
(* Bytes the parser distinguishes.                                         *)
(***************************************************************************)
ESC == 27
BEL == 7
BS == 8
TAB == 9
LF == 10
CR == 13
SEMICOLON == 59
PLUS == 43
LBRACKET == 91
RBRACKET == 93
BACKSLASH == 92
DIGIT0 == 48
DIGIT9 == 57
CSI_FINAL_LO == 64
CSI_FINAL_HI == 126
REPLACEMENT_CHAR == 65533

(***************************************************************************)
(* State.                                                                  *)
(***************************************************************************)
VARIABLES
    \* The parser (parser.rs:7-14) and what its caller has seen.
    state,          \* TerminalParser.state
    escape_buffer,  \* TerminalParser.escape_buffer
    fed,            \* every byte given to parse so far, in order
    emitted,        \* the actions the parse calls returned, concatenated
    parse_ok,       \* the last parse call returned Ok (it did not abort)
    resumed,        \* the last parse call started inside an escape sequence
    \* The screen buffer (vt.rs:77-103).
    vt,             \* the VirtualTerminal, a record of its fields
    vt_steps,       \* number of calls made on it
    vt_last,        \* the last call made on it
    \* process_csi_sequence as a function of the accumulator it is given.
    csi_buffer,     \* the accumulator: ESC [ parameters final
    csi_called,     \* process_csi_sequence has been called on it
    csi_action,     \* the Option it returned
    \* A parser of the source's capacity given one whole input.
    seq_input,      \* the bytes given to parse
    seq_called,     \* parse has been called on them
    seq_parser,     \* the parser and the actions the call returned
    \* The PTY pair (pty.rs:14-27) and the task reading its master side.
    pty_alive,      \* which of PtyMaster, PtySlave have not been dropped
    pty_closes,     \* number of close calls issued on each descriptor
    pty_nonblocking, \* O_NONBLOCK is set on the master descriptor
    pty_data,       \* bytes written on the slave side, not yet read
    reader,         \* the reading task: where it stands
    pty_received,   \* bytes the reading task has been given
    pty_shutdowns,  \* number of poll_shutdown calls made on the master
    \* The Terminal facade (lib.rs:13-17) and what its caller has seen.
    term_accepted,  \* the bytes of every write call that returned Ok, in call order
    term_master,    \* the bytes the facade has written to a PTY master
    term_events,    \* the TermEvents sent on event_sender
    term_last,      \* the last call made on the facade and its result
    \* The block navigation (navigation.rs:5-13) and the calls made on it.
    nav,            \* the BlockNavigation, a record of its fields
    nav_log,        \* the calls made on it: call, argument, result, block current before
    \* The command history (history.rs:9-15) and the calls made on it.
    hist,           \* the History, a record of its fields
    hist_file,      \* the commands of the lines of the history file
    hist_steps,     \* number of calls made on it
    hist_last,      \* the last call made on it, its result, the History before it
    \* A parser given a stream of bytes of any length, one at a time.
    stream,         \* the parser, with the actions its last byte yielded
    stream_run,     \* number of bytes in a row that left it outside Normal
    stream_last     \* the last byte, and the state and accumulator before it

parser_vars == <<state, escape_buffer, fed, emitted, parse_ok, resumed>>
vt_vars == <<vt, vt_steps, vt_last>>
csi_vars == <<csi_buffer, csi_called, csi_action>>
seq_vars == <<seq_input, seq_called, seq_parser>>
pty_vars == <<pty_alive, pty_closes, pty_nonblocking, pty_data, reader, pty_received, pty_shutdowns>>
term_vars == <<term_accepted, term_master, term_events, term_last>>
nav_vars == <<nav, nav_log>>
hist_vars == <<hist, hist_file, hist_steps, hist_last>>
stream_vars == <<stream, stream_run, stream_last>>
vars == <<parser_vars, vt_vars, csi_vars, seq_vars, pty_vars, term_vars, nav_vars, hist_vars, stream_vars>>

(***************************************************************************)
(* Bounds of the model.  The source sets max_escape_len to 1024            *)
(* (parser.rs:34); the model keeps the name and scales the capacity down   *)
(* so that sequences that fill and overflow the accumulator are explored.  *)
(* Every formula below is stated in terms of max_escape_len, not of its    *)
(* value.                                                                  *)
(***************************************************************************)
max_escape_len == 4
\* Total number of bytes fed to one parser.
MaxInput == 5

\* The bytes fed to the parser: ESC, the two introducers, a parameter
\* separator, a digit, a CSI final byte that is also in the two-byte escape
\* table ('H'), and the two OSC terminators (BEL, and '\' after ESC).
Alphabet == {ESC, LBRACKET, RBRACKET, SEMICOLON, 50, 72, BEL, BACKSLASH}

(***************************************************************************)
(* TerminalAction (parser.rs:224-265): a tag and its arguments, flattened  *)
(* to a sequence of integers.                                              *)
(***************************************************************************)
Act(t, a) == [type |-> t, args |-> a]

None == <<>>
Some(x) == <<x>>

(***************************************************************************)
(* Helpers of the Rust standard library, by what they do.                  *)
(***************************************************************************)
Min(a, b) == IF a < b THEN a ELSE b

\* &v[from..to] (0-based, end exclusive): panics when from > to or to > len.
SliceOk(v, from, to) == from <= to /\ to <= Len(v)
Slice(v, from, to) == SubSeq(v, from + 1, to)

\* String::from_utf8_lossy: ASCII bytes are kept; a byte that is not valid
\* UTF-8 on its own becomes U+FFFD.
from_utf8_lossy(bytes) ==
    [i \in 1..Len(bytes) |-> IF bytes[i] < 128 THEN bytes[i] ELSE REPLACEMENT_CHAR]

\* str::find(ch): 0-based index of the first occurrence, or None.
find(s, ch) ==
    IF \E i \in 1..Len(s) : s[i] = ch
    THEN Some((CHOOSE i \in 1..Len(s) : s[i] = ch /\ \A j \in 1..(i-1) : s[j] # ch) - 1)
    ELSE None

\* str::split(ch): the fields between the separators; "" gives one empty field.
RECURSIVE split(_, _)
split(s, ch) ==
    LET f == find(s, ch) IN
    IF f = None THEN <<s>>
    ELSE <<SubSeq(s, 1, f[1])>> \o split(SubSeq(s, f[1] + 2, Len(s)), ch)

\* str::split_once(ch): Some((before, after)) at the first occurrence.
split_once(s, ch) ==
    LET f == find(s, ch) IN
    IF f = None THEN None
    ELSE Some(<<SubSeq(s, 1, f[1]), SubSeq(s, f[1] + 2, Len(s))>>)

IsDigit(c) == c >= DIGIT0 /\ c <= DIGIT9

RECURSIVE DigitsValue(_)
DigitsValue(ds) ==
    IF ds = <<>> THEN 0
    ELSE 10 * DigitsValue(SubSeq(ds, 1, Len(ds) - 1)) + (ds[Len(ds)] - DIGIT0)

\* str::parse::<u32>(): an optional '+', then one or more decimal digits.
\* A field of the model has fewer than ten digits, so its value is below
\* 2^32 and the overflow error of the source cannot arise.
parse_u32(s) ==
    LET ds == IF s # <<>> /\ s[1] = PLUS THEN Tail(s) ELSE s IN
    IF ds = <<>> \/ (\E i \in 1..Len(ds) : ~IsDigit(ds[i])) \/ Len(ds) > 9
    THEN None
    ELSE Some(DigitsValue(ds))

\* str::parse::<u8>(): as parse_u32, and the value must fit 8 bits.
parse_u8(s) ==
    LET v == parse_u32(s) IN
    IF v # None /\ v[1] <= 255 THEN v ELSE None

\* A mutant of filter_map_parse: the values are collected last field first.
RECURSIVE filter_map_parse_reversed(_)
filter_map_parse_reversed(fields) ==
    IF fields = <<>> THEN <<>>
    ELSE filter_map_parse_reversed(Tail(fields)) \o parse_u32(Head(fields))

\* Iterator::filter_map(|s| s.parse::<u32>().ok()).collect()
RECURSIVE filter_map_parse(_)
filter_map_parse(fields) ==
    IF fields = <<>> THEN <<>>
    ELSE parse_u32(Head(fields)) \o filter_map_parse(Tail(fields))

\* params.get(i).copied().unwrap_or(d), i 0-based.
get_or(params, i, d) == IF i < Len(params) THEN params[i + 1] ELSE d



(***************************************************************************)
(* TerminalParser                                                          *)
(***************************************************************************)
\* A mutant of process_simple_escape_sequence: the table of the CSI cursor
\* letters only.
process_simple_escape_sequence_short(buf) ==
    IF Len(buf) < 2 THEN None
    ELSE CASE buf[2] = 65 -> Some(Act("CursorUp", <<1>>))
           [] buf[2] = 66 -> Some(Act("CursorDown", <<1>>))
           [] buf[2] = 67 -> Some(Act("CursorForward", <<1>>))
           [] buf[2] = 68 -> Some(Act("CursorBackward", <<1>>))
           [] OTHER -> None

\* process_simple_escape_sequence: the two-byte escapes.
process_simple_escape_sequence(buf) ==
    IF Len(buf) < 2 THEN None
    ELSE CASE buf[2] = 65 -> Some(Act("CursorUp", <<1>>))
           [] buf[2] = 66 -> Some(Act("CursorDown", <<1>>))
           [] buf[2] = 67 -> Some(Act("CursorForward", <<1>>))
           [] buf[2] = 68 -> Some(Act("CursorBackward", <<1>>))
           [] buf[2] = 69 -> Some(Act("CursorNextLine", <<1>>))
           [] buf[2] = 70 -> Some(Act("CursorPreviousLine", <<1>>))
           [] buf[2] = 72 -> Some(Act("CursorPosition", <<1, 1>>))
           [] buf[2] = 74 -> Some(Act("EraseInDisplay", <<0>>))
           [] buf[2] = 75 -> Some(Act("EraseInLine", <<0>>))
           [] buf[2] = 77 -> Some(Act("ScrollUp", <<1>>))
           [] buf[2] = 99 -> Some(Act("Reset", <<>>))
           [] OTHER -> None

\* The range of escape_buffer that holds the parameters of a CSI or the
\* content of an OSC: [2 .. len - 1].
params_range_shifted(buf) == <<3, Len(buf) - 1>>
params_range(buf) == <<2, Len(buf) - 1>>

\* The parameter list of a CSI: the fields that parse as u32, in order.
csi_params(params_str) == filter_map_parse(split(params_str, SEMICOLON))

\* A mutant of csi_dispatch: a final byte with no arm dispatches as 'm'.
csi_dispatch_defaulting(final_byte, params) ==
    IF final_byte \in {72, 102}
    THEN Some(Act("CursorPosition", <<get_or(params, 0, 1), get_or(params, 1, 1)>>))
    ELSE Some(Act("SetGraphicsRendition", params))

\* The action of a CSI with final byte final_byte and parameter list params.
csi_dispatch(final_byte, params) ==
    CASE final_byte = 109 -> Some(Act("SetGraphicsRendition", params))
      [] final_byte \in {72, 102} ->
            Some(Act("CursorPosition", <<get_or(params, 0, 1), get_or(params, 1, 1)>>))
      [] final_byte = 74 -> Some(Act("EraseInDisplay", <<get_or(params, 0, 0)>>))
      [] final_byte = 75 -> Some(Act("EraseInLine", <<get_or(params, 0, 0)>>))
      [] final_byte = 65 -> Some(Act("CursorUp", <<get_or(params, 0, 1)>>))
      [] final_byte = 66 -> Some(Act("CursorDown", <<get_or(params, 0, 1)>>))
      [] final_byte = 67 -> Some(Act("CursorForward", <<get_or(params, 0, 1)>>))
      [] final_byte = 68 -> Some(Act("CursorBackward", <<get_or(params, 0, 1)>>))
      [] OTHER -> None

\* process_csi_sequence: [ok |-> the call returned, action |-> its Option].
process_csi_sequence(buf) ==
    IF Len(buf) < 3 THEN [ok |-> TRUE, action |-> None]
    ELSE LET r == params_range(buf) IN
         IF ~SliceOk(buf, r[1], r[2]) THEN [ok |-> FALSE, action |-> None]
         ELSE [ok |-> TRUE,
               action |-> csi_dispatch(buf[Len(buf)],
                              csi_params(from_utf8_lossy(Slice(buf, r[1], r[2]))))]

\* The action of an OSC whose content (between ESC ] and the last byte) is
\* osc_data.
osc_dispatch(osc_data) ==
    LET semicolon_pos == find(osc_data, SEMICOLON) IN
    IF semicolon_pos = None THEN None
    ELSE LET cmd == SubSeq(osc_data, 1, semicolon_pos[1])
             args == SubSeq(osc_data, semicolon_pos[1] + 2, Len(osc_data))
         IN  CASE cmd \in {<<48>>, <<50>>} -> Some(Act("SetWindowTitle", args))
               [] cmd = <<52>> ->
                    LET so == split_once(args, SEMICOLON) IN
                    IF so = None THEN None
                    ELSE LET index == parse_u8(so[1][1]) IN
                         IF index = None THEN None
                         ELSE Some(Act("SetColorPalette", index \o so[1][2]))
               [] OTHER -> None

\* process_osc_sequence: [ok |-> the call returned, action |-> its Option].
process_osc_sequence(buf) ==
    IF Len(buf) < 4 THEN [ok |-> TRUE, action |-> None]
    ELSE LET r == params_range(buf) IN
         IF ~SliceOk(buf, r[1], r[2]) THEN [ok |-> FALSE, action |-> None]
         ELSE [ok |-> TRUE,
               action |-> osc_dispatch(from_utf8_lossy(Slice(buf, r[1], r[2])))]

\* A mutant of normal_action: carriage return is printed like any other byte.
normal_action_printing_cr(byte) ==
    CASE byte = BEL -> Act("Bell", <<>>)
      [] byte = BS -> Act("Backspace", <<>>)
      [] byte = TAB -> Act("Tab", <<>>)
      [] byte = LF -> Act("LineFeed", <<>>)
      [] OTHER -> Act("Print", <<byte>>)

\* The action of a byte other than ESC in state Normal (parser.rs:54-60).
normal_action(byte) ==
    CASE byte = BEL -> Act("Bell", <<>>)
      [] byte = BS -> Act("Backspace", <<>>)
      [] byte = TAB -> Act("Tab", <<>>)
      [] byte = LF -> Act("LineFeed", <<>>)
      [] byte = CR -> Act("CarriageReturn", <<>>)
      [] OTHER -> Act("Print", <<byte>>)

\* One iteration of the loop of parse (parser.rs:43-121) on parser p =
\* [state, escape_buffer, actions, ok] whose max_escape_len field is cap.
parse_byte_with(p, byte, cap) ==
    CASE p.state = "Normal" ->
            IF byte = ESC
            THEN [p EXCEPT !.escape_buffer = <<byte>>, !.state = "Escape"]
            ELSE [p EXCEPT !.actions = Append(@, normal_action(byte))]
      [] p.state = "Escape" ->
            LET buf == Append(p.escape_buffer, byte) IN
            CASE byte = RBRACKET -> [p EXCEPT !.escape_buffer = buf, !.state = "Osc"]
              [] byte = LBRACKET -> [p EXCEPT !.escape_buffer = buf, !.state = "Csi"]
              [] OTHER -> [p EXCEPT !.escape_buffer = buf,
                                    !.actions = @ \o process_simple_escape_sequence(buf),
                                    !.state = "Normal"]
      [] p.state = "Csi" ->
            LET buf == Append(p.escape_buffer, byte)
                final == byte >= CSI_FINAL_LO /\ byte <= CSI_FINAL_HI
                r == IF final THEN process_csi_sequence(buf)
                              ELSE [ok |-> TRUE, action |-> None]
            IN  IF ~r.ok THEN [p EXCEPT !.escape_buffer = buf, !.ok = FALSE]
                ELSE [p EXCEPT !.escape_buffer = buf,
                               !.actions = @ \o r.action,
                               !.state = IF final \/ Len(buf) > cap
                                         THEN "Normal" ELSE @]
      [] p.state = "Osc" ->
            LET buf == Append(p.escape_buffer, byte)
                term == byte = BEL
                        \/ (byte = BACKSLASH /\ Len(buf) >= 2 /\ buf[Len(buf) - 1] = ESC)
                r == IF term THEN process_osc_sequence(buf)
                             ELSE [ok |-> TRUE, action |-> None]
            IN  IF ~r.ok THEN [p EXCEPT !.escape_buffer = buf, !.ok = FALSE]
                ELSE [p EXCEPT !.escape_buffer = buf,
                               !.actions = @ \o r.action,
                               !.state = IF term \/ Len(buf) > cap
                                         THEN "Normal" ELSE @]

\* A mutant of parse_byte: the accumulator is given one more byte before
\* the sequence is abandoned.
parse_byte_unbounded(p, byte) == parse_byte_with(p, byte, max_escape_len + 1)

\* A mutant of parse_byte: BS, TAB, LF and CR inside a CSI or an OSC are
\* executed instead of accumulated.
parse_byte_executing(p, byte) ==
    IF p.state \in {"Csi", "Osc"} /\ byte \in {BS, TAB, LF, CR}
    THEN [p EXCEPT !.actions = Append(@, normal_action(byte))]
    ELSE parse_byte_with(p, byte, max_escape_len)

\* One iteration on a parser of the capacity of the model.
parse_byte(p, byte) == parse_byte_with(p, byte, max_escape_len)

\* The loop of parse over data; an abort (a panic) ends it.
RECURSIVE parse_loop(_, _)
parse_loop(p, data) ==
    IF data = <<>> \/ ~p.ok THEN p
    ELSE parse_loop(parse_byte(p, Head(data)), Tail(data))

\* A mutant of parse: the call starts from Normal with an empty accumulator
\* instead of the state the previous call left.
parse_forgetting(st, buf, data) ==
    parse_loop([state |-> "Normal", escape_buffer |-> <<>>, actions |-> <<>>, ok |-> TRUE], data)

\* TerminalParser::parse(data) on a parser in state st with accumulator buf:
\* the state and accumulator it leaves, the actions it returns, and whether
\* it returned.
parse(st, buf, data) ==
    parse_loop([state |-> st, escape_buffer |-> buf, actions |-> <<>>, ok |-> TRUE], data)

\* The capacity TerminalParser::new gives the accumulator (parser.rs:34).
SOURCE_MAX_ESCAPE_LEN == 1024

\* The loop of parse on a parser whose max_escape_len field is cap.
RECURSIVE parse_loop_with(_, _, _)
parse_loop_with(p, data, cap) ==
    IF data = <<>> \/ ~p.ok THEN p
    ELSE parse_loop_with(parse_byte_with(p, Head(data), cap), Tail(data), cap)

\* TerminalParser::new followed by nothing: the parser record of a fresh
\* parser, with no action returned yet.
NewParser == [state |-> "Normal", escape_buffer |-> <<>>, actions |-> <<>>, ok |-> TRUE]

\* TerminalParser::new
ParserInit ==
    /\ state = "Normal"
    /\ escape_buffer = <<>>
    /\ fed = <<>>
    /\ emitted = <<>>
    /\ parse_ok = TRUE
    /\ resumed = FALSE

\* One call parser.parse(data), data any non-empty chunk.
Parse ==
    /\ parse_ok
    /\ \E n \in 1..(MaxInput - Len(fed)) :
         \E data \in [1..n -> Alphabet] :
            LET p == parse(state, escape_buffer, data) IN
            /\ state' = p.state
            /\ escape_buffer' = p.escape_buffer
            /\ fed' = fed \o data
            /\ emitted' = emitted \o p.actions
            /\ parse_ok' = p.ok
            /\ resumed' = (state # "Normal")
    /\ UNCHANGED <<vt_vars, csi_vars, seq_vars, pty_vars, term_vars, nav_vars, hist_vars, stream_vars>>

NextParser == Parse

(***************************************************************************)
(* VirtualTerminal (vt.rs).  The struct is the record vt, its fields named *)
(* as in the source; rows, columns and the cursor are 0-based there, and   *)
(* the grid is a sequence (1-based) of rows, each a sequence of cells.     *)
(* vt.status is "Ok" while every call so far has returned, "Panic" once a  *)
(* call has aborted (an index out of range, an arithmetic overflow in a    *)
(* build that checks it), "Wrapped" once a call has let rows - 1 or        *)
(* cols - 1 wrap below zero in a build that does not check it.             *)
(***************************************************************************)

\* CellAttributes::default (vt.rs:42-56)
DefaultAttributes ==
    [fg_color |-> Some(7), bg_color |-> Some(0), bold |-> FALSE, italic |-> FALSE,
     underline |-> FALSE, blink |-> FALSE, reverse |-> FALSE, hidden |-> FALSE,
     strikethrough |-> FALSE]

SPACE == 32

\* Cell::default (vt.rs:67-74)
DefaultCell == [character |-> SPACE, attributes |-> DefaultAttributes]

\* Cell { character: ' ', attributes: current_attributes }
BlankCell(attrs) == [character |-> SPACE, attributes |-> attrs]

\* A grid of nrows x ncols default cells (vt.rs:136-143, 645-652).
DefaultGrid(ncols, nrows) == [i \in 1..nrows |-> [j \in 1..ncols |-> DefaultCell]]

\* grid[row][col] (0-based) exists.
InGrid(g, row, col) == row < Len(g) /\ col < Len(g[row + 1])

\* Every cell (row, col) with row < nrows and col < ncols exists in g.
Covers(g, ncols, nrows) ==
    nrows = 0 \/ ncols = 0 \/ (Len(g) >= nrows /\ \A i \in 1..nrows : Len(g[i]) >= ncols)

Panic(t) == [t EXCEPT !.status = "Panic"]

(***************************************************************************)
(* The colour palette.  Its entries, and the colour of a SetColorPalette    *)
(* given to the buffer, are strings "#RRGGBB".                             *)
(***************************************************************************)
\* The hexadecimal digits, upper case.
HexDigits == <<"0", "1", "2", "3", "4", "5", "6", "7", "8", "9", "A", "B", "C", "D", "E", "F">>

\* A mutant of Hex02: a value below 16 is written as one digit.
Hex02_unpadded(v) ==
    IF v < 16 THEN HexDigits[v + 1]
    ELSE HexDigits[(v \div 16) + 1] \o HexDigits[(v % 16) + 1]

\* format!("{:02X}", v) for v < 256
Hex02(v) == HexDigits[(v \div 16) + 1] \o HexDigits[(v % 16) + 1]

\* format!("#{:02X}{:02X}{:02X}", r, g, b)
HexColor(r, g, b) == "#" \o Hex02(r) \o Hex02(g) \o Hex02(b)

\* DEFAULT_COLORS (vt.rs:7-24)
DEFAULT_COLORS ==
    <<"#000000", "#CC0000", "#4E9A06", "#C4A000", "#3465A4", "#75507B", "#06989A",
      "#D3D7CF", "#555753", "#EF2929", "#8AE234", "#FCE94F", "#729FCF", "#AD7FA8",
      "#34E2E2", "#EEEEEC">>

CubeLevel(v) == IF v > 0 THEN v * 40 + 55 ELSE 0

\* The palette built by new (vt.rs:108-133): 16 ANSI colours, the 6x6x6
\* cube, 24 greys.
InitialPalette ==
    [i \in 1..256 |->
        IF i <= 16 THEN DEFAULT_COLORS[i]
        ELSE IF i <= 232
             THEN LET k == i - 17 IN
                  HexColor(CubeLevel(k \div 36), CubeLevel((k \div 6) % 6), CubeLevel(k % 6))
             ELSE LET value == 8 + (i - 233) * 10 IN HexColor(value, value, value)]

(***************************************************************************)
(* new and resize.  rows - 1 and cols - 1 are usize subtractions: on 0     *)
(* they abort in a build with overflow checks and wrap in one without.     *)
(***************************************************************************)
\* VirtualTerminal::new(cols, rows) with cols, rows >= 1 (vt.rs:107-161).
new(ncols, nrows) ==
    [grid |-> DefaultGrid(ncols, nrows),
     cols |-> ncols,
     rows |-> nrows,
     cursor_row |-> 0,
     cursor_col |-> 0,
     current_attributes |-> DefaultAttributes,
     saved_cursor_row |-> 0,
     saved_cursor_col |-> 0,
     saved_attributes |-> DefaultAttributes,
     color_palette |-> InitialPalette,
     title |-> <<84, 101, 114, 109, 105, 110, 97, 108>>,   \* "Terminal"
     scroll_region |-> <<0, nrows - 1>>,
     alt_buffer_active |-> FALSE,
     main_grid |-> None,
     status |-> "Ok"]

\* The grid resize builds (vt.rs:166-179).
resized_grid(t, ncols, nrows) ==
    [i \in 1..nrows |-> [j \in 1..ncols |->
        IF i - 1 < t.rows /\ j - 1 < t.cols THEN t.grid[i][j] ELSE DefaultCell]]

\* A mutant of resize_cursor: the cursor is not clamped into the new bounds.
resize_cursor_unclamped(t, ncols, nrows) == <<t.cursor_row, t.cursor_col>>

\* The cursor after resize (vt.rs:186-187).
resize_cursor(t, ncols, nrows) ==
    <<Min(t.cursor_row, nrows - 1), Min(t.cursor_col, ncols - 1)>>

\* VirtualTerminal::resize(cols, rows) with cols, rows >= 1 (vt.rs:164-191).
resize(t, ncols, nrows) ==
    IF ~Covers(t.grid, Min(t.cols, ncols), Min(t.rows, nrows)) THEN Panic(t)
    ELSE [t EXCEPT !.grid = resized_grid(t, ncols, nrows),
                   !.cols = ncols,
                   !.rows = nrows,
                   !.cursor_row = resize_cursor(t, ncols, nrows)[1],
                   !.cursor_col = resize_cursor(t, ncols, nrows)[2],
                   !.scroll_region = <<0, nrows - 1>>]

(***************************************************************************)
(* Select Graphic Rendition.  The colour components of the model are       *)
(* below 2^15, so the u32 shifts of the source do not wrap.                *)
(***************************************************************************)
RECURSIVE BitOr(_, _)
BitOr(a, b) ==
    IF a = 0 THEN b
    ELSE IF b = 0 THEN a
    ELSE 2 * BitOr(a \div 2, b \div 2) + (IF a % 2 = 1 \/ b % 2 = 1 THEN 1 ELSE 0)

RGB_TAG == 16777216

\* ((r << 16) | (g << 8) | b) | 0x1000000 (vt.rs:475-476)
tagged_rgb(r, g, b) == BitOr(BitOr(BitOr(r * 65536, g * 256), b), RGB_TAG)

\* The arms 38 and 48 (vt.rs:456-485, 497-526) at parameter index i
\* (0-based): the colour they set, if any, and the index they leave.
sgr_extended(params, i) ==
    IF i + 1 < Len(params)
    THEN CASE params[i + 2] = 5 ->
                IF i + 2 < Len(params)
                THEN [color |-> Some(params[i + 3]), i |-> i + 2 + 1]
                ELSE [color |-> None, i |-> i + 1]
           [] params[i + 2] = 2 ->
                IF i + 4 < Len(params)
                THEN [color |-> Some(tagged_rgb(params[i + 3], params[i + 4], params[i + 5])),
                      i |-> i + 4 + 1]
                ELSE [color |-> None, i |-> i + 1]
           [] OTHER -> [color |-> None, i |-> i + 1]
    ELSE [color |-> None, i |-> i]

\* One arm of the match in process_sgr on params[i] (i 0-based): the
\* attributes and the index it leaves, before the loop's own i += 1.
sgr_arm(attrs, params, i) ==
    LET code == params[i + 1]
        same == [attrs |-> attrs, i |-> i]
    IN  CASE code = 0 -> [attrs |-> DefaultAttributes, i |-> i]
          [] code = 1 -> [attrs |-> [attrs EXCEPT !.bold = TRUE], i |-> i]
          [] code = 3 -> [attrs |-> [attrs EXCEPT !.italic = TRUE], i |-> i]
          [] code = 4 -> [attrs |-> [attrs EXCEPT !.underline = TRUE], i |-> i]
          [] code = 5 -> [attrs |-> [attrs EXCEPT !.blink = TRUE], i |-> i]
          [] code = 7 -> [attrs |-> [attrs EXCEPT !.reverse = TRUE], i |-> i]
          [] code = 8 -> [attrs |-> [attrs EXCEPT !.hidden = TRUE], i |-> i]
          [] code = 9 -> [attrs |-> [attrs EXCEPT !.strikethrough = TRUE], i |-> i]
          [] code \in {21, 22} -> [attrs |-> [attrs EXCEPT !.bold = FALSE], i |-> i]
          [] code = 23 -> [attrs |-> [attrs EXCEPT !.italic = FALSE], i |-> i]
          [] code = 24 -> [attrs |-> [attrs EXCEPT !.underline = FALSE], i |-> i]
          [] code = 25 -> [attrs |-> [attrs EXCEPT !.blink = FALSE], i |-> i]
          [] code = 27 -> [attrs |-> [attrs EXCEPT !.reverse = FALSE], i |-> i]
          [] code = 28 -> [attrs |-> [attrs EXCEPT !.hidden = FALSE], i |-> i]
          [] code = 29 -> [attrs |-> [attrs EXCEPT !.strikethrough = FALSE], i |-> i]
          [] code \in 30..37 -> [attrs |-> [attrs EXCEPT !.fg_color = Some(code - 30)], i |-> i]
          [] code = 38 ->
                LET e == sgr_extended(params, i) IN
                [attrs |-> IF e.color = None THEN attrs
                           ELSE [attrs EXCEPT !.fg_color = e.color],
                 i |-> e.i]
          [] code = 39 -> [attrs |-> [attrs EXCEPT !.fg_color = Some(7)], i |-> i]
          [] code \in 40..47 -> [attrs |-> [attrs EXCEPT !.bg_color = Some(code - 40)], i |-> i]
          [] code = 48 ->
                LET e == sgr_extended(params, i) IN
                [attrs |-> IF e.color = None THEN attrs
                           ELSE IF params[i + 2] = 5
                                THEN [attrs EXCEPT !.bg_color = e.color]
                                ELSE [attrs EXCEPT !.fg_color = e.color],
                 i |-> e.i]
          [] code = 49 -> [attrs |-> [attrs EXCEPT !.bg_color = Some(0)], i |-> i]
          [] code \in 90..97 ->
                [attrs |-> [attrs EXCEPT !.fg_color = Some(code - 90 + 8)], i |-> i]
          [] code \in 100..107 ->
                [attrs |-> [attrs EXCEPT !.bg_color = Some(code - 100 + 8)], i |-> i]
          [] OTHER -> same

\* A mutant of sgr_loop: only the first parameter is applied.
sgr_loop_first_only(attrs, params, i) ==
    IF i >= Len(params) THEN attrs ELSE sgr_arm(attrs, params, i).attrs

\* The while loop of process_sgr (vt.rs:371-545) from parameter index i.
RECURSIVE sgr_loop(_, _, _)
sgr_loop(attrs, params, i) ==
    IF i >= Len(params) THEN attrs
    ELSE LET r == sgr_arm(attrs, params, i) IN sgr_loop(r.attrs, params, r.i + 1)

\* process_sgr (vt.rs:364-546): the attributes it leaves.
process_sgr(attrs, params) ==
    IF params = <<>> THEN DefaultAttributes ELSE sgr_loop(attrs, params, 0)

(***************************************************************************)
(* Scrolling, erasing, printing.                                           *)
(***************************************************************************)
\* scroll_up (vt.rs:614-638)
scroll_up(t, n) ==
    LET top == t.scroll_region[1]
        bottom == t.scroll_region[2]
        k == Min(n, bottom - top + 1)
        g == t.grid
    IN  IF k = 0 THEN t
        ELSE IF ~Covers(g, t.cols, bottom + 1) THEN Panic(t)
        ELSE [t EXCEPT !.grid =
                [i \in 1..Len(g) |-> [j \in 1..Len(g[i]) |->
                    IF j <= t.cols /\ i - 1 >= top /\ i - 1 < bottom + 1 - k
                    THEN g[i + k][j]
                    ELSE IF j <= t.cols /\ i - 1 >= bottom + 1 - k /\ i - 1 <= bottom
                    THEN BlankCell(t.current_attributes)
                    ELSE g[i][j]]]]

\* The cells erase_region writes (vt.rs:591-609), 0-based.
erase_cells(t, sr, sc, er, ec) ==
    LET start_row == Min(sr, t.rows - 1)
        start_col == Min(sc, t.cols - 1)
        end_row == Min(er, t.rows - 1)
        end_col == Min(ec, t.cols - 1)
    IN  {rc \in (start_row..end_row) \X (0..(t.cols - 1)) :
            /\ rc[2] >= (IF rc[1] = start_row THEN start_col ELSE 0)
            /\ rc[2] <= (IF rc[1] = end_row THEN end_col ELSE t.cols - 1)}

\* erase_region (vt.rs:590-611)
erase_region(t, sr, sc, er, ec) ==
    LET cells == erase_cells(t, sr, sc, er, ec)
        g == t.grid
    IN  IF \E rc \in cells : ~InGrid(g, rc[1], rc[2]) THEN Panic(t)
        ELSE [t EXCEPT !.grid =
                [i \in 1..Len(g) |-> [j \in 1..Len(g[i]) |->
                    IF <<i - 1, j - 1>> \in cells
                    THEN BlankCell(t.current_attributes) ELSE g[i][j]]]]

\* The LineFeed arm (vt.rs:217-223); put_char wraps the same way
\* (vt.rs:582-586).
line_feed(t) ==
    IF t.cursor_row + 1 > t.scroll_region[2]
    THEN LET s == scroll_up([t EXCEPT !.cursor_row = @ + 1], 1) IN
         IF s.status # "Ok" THEN Panic(t)
         ELSE [s EXCEPT !.cursor_row = t.scroll_region[2]]
    ELSE [t EXCEPT !.cursor_row = @ + 1]

\* A mutant of tab: the column is not clamped to cols - 1.
tab_unclamped(t) == [t EXCEPT !.cursor_col = ((@ + 8) \div 8) * 8]

\* The Tab arm (vt.rs:209-215)
tab(t) ==
    LET c == ((t.cursor_col + 8) \div 8) * 8 IN
    [t EXCEPT !.cursor_col = IF c >= t.cols THEN t.cols - 1 ELSE c]

\* The Backspace arm (vt.rs:203-207)
backspace(t) == IF t.cursor_col > 0 THEN [t EXCEPT !.cursor_col = @ - 1] ELSE t

\* put_char (vt.rs:549-588)
put_char(t, c) ==
    CASE c = LF -> line_feed(t)
      [] c = CR -> [t EXCEPT !.cursor_col = 0]
      [] c = TAB -> tab(t)
      [] c = BS -> backspace(t)
      [] c = BEL -> t
      [] OTHER ->
            LET write == t.cursor_row < t.rows /\ t.cursor_col < t.cols IN
            IF write /\ ~InGrid(t.grid, t.cursor_row, t.cursor_col) THEN Panic(t)
            ELSE LET w == IF write
                          THEN [t EXCEPT !.grid[t.cursor_row + 1][t.cursor_col + 1] =
                                    [character |-> c, attributes |-> t.current_attributes]]
                          ELSE t
                 IN  IF w.cursor_col + 1 >= w.cols
                     THEN LET l == line_feed([w EXCEPT !.cursor_col = 0]) IN
                          IF l.status # "Ok" THEN Panic(t) ELSE l
                     ELSE [w EXCEPT !.cursor_col = @ + 1]

\* a.saturating_sub(b)
saturating_sub(a, b) == IF a >= b THEN a - b ELSE 0

\* VirtualTerminal::process_action (vt.rs:194-361)
process_action(t, action) ==
    LET a == action.args IN
    CASE action.type = "Print" -> put_char(t, a[1])
      [] action.type = "Bell" -> t
      [] action.type = "Backspace" -> backspace(t)
      [] action.type = "Tab" -> tab(t)
      [] action.type = "LineFeed" -> line_feed(t)
      [] action.type = "CarriageReturn" -> [t EXCEPT !.cursor_col = 0]
      [] action.type = "CursorUp" -> [t EXCEPT !.cursor_row = saturating_sub(@, a[1])]
      [] action.type = "CursorDown" ->
            [t EXCEPT !.cursor_row = Min(@ + a[1], t.rows - 1)]
      [] action.type = "CursorForward" ->
            [t EXCEPT !.cursor_col = Min(@ + a[1], t.cols - 1)]
      [] action.type = "CursorBackward" -> [t EXCEPT !.cursor_col = saturating_sub(@, a[1])]
      [] action.type = "CursorNextLine" ->
            [t EXCEPT !.cursor_row = Min(@ + a[1], t.rows - 1), !.cursor_col = 0]
      [] action.type = "CursorPreviousLine" ->
            [t EXCEPT !.cursor_row = saturating_sub(@, a[1]), !.cursor_col = 0]
      [] action.type = "CursorPosition" ->
            [t EXCEPT !.cursor_row = Min(saturating_sub(a[1], 1), t.rows - 1),
                      !.cursor_col = Min(saturating_sub(a[2], 1), t.cols - 1)]
      [] action.type = "EraseInDisplay" ->
            CASE a[1] = 0 -> erase_region(t, t.cursor_row, t.cursor_col, t.rows - 1, t.cols - 1)
              [] a[1] = 1 -> erase_region(t, 0, 0, t.cursor_row, t.cursor_col)
              [] a[1] \in {2, 3} -> erase_region(t, 0, 0, t.rows - 1, t.cols - 1)
              [] OTHER -> t
      [] action.type = "EraseInLine" ->
            CASE a[1] = 0 -> erase_region(t, t.cursor_row, t.cursor_col, t.cursor_row, t.cols - 1)
              [] a[1] = 1 -> erase_region(t, t.cursor_row, 0, t.cursor_row, t.cursor_col)
              [] a[1] = 2 -> erase_region(t, t.cursor_row, 0, t.cursor_row, t.cols - 1)
              [] OTHER -> t
      [] action.type = "SetGraphicsRendition" ->
            [t EXCEPT !.current_attributes = process_sgr(@, a)]
      [] action.type = "Reset" ->
            erase_region([t EXCEPT !.current_attributes = DefaultAttributes,
                                   !.cursor_row = 0,
                                   !.cursor_col = 0,
                                   !.scroll_region = <<0, t.rows - 1>>],
                         0, 0, t.rows - 1, t.cols - 1)
      [] action.type = "ScrollUp" -> scroll_up(t, a[1])
      [] action.type = "SetWindowTitle" -> [t EXCEPT !.title = a]
      [] action.type = "SetColorPalette" ->
            IF a[1] < Len(t.color_palette)
            THEN [t EXCEPT !.color_palette[a[1] + 1] = a[2]]
            ELSE t

\* A mutant of use_alternate_buffer: the switch is made whether or not
\* enable differs from alt_buffer_active.
use_alternate_buffer_unguarded(t, enable) ==
    IF enable
    THEN [t EXCEPT !.main_grid = Some(t.grid),
                   !.grid = DefaultGrid(t.cols, t.rows),
                   !.alt_buffer_active = enable]
    ELSE [t EXCEPT !.grid = IF t.main_grid # None THEN t.main_grid[1] ELSE @,
                   !.main_grid = None,
                   !.alt_buffer_active = enable]

\* A mutant of use_alternate_buffer: switching back copies the stashed grid
\* and keeps the stash.
use_alternate_buffer_keeping(t, enable) ==
    IF enable # t.alt_buffer_active
    THEN IF enable
         THEN [t EXCEPT !.main_grid = Some(t.grid),
                        !.grid = DefaultGrid(t.cols, t.rows),
                        !.alt_buffer_active = enable]
         ELSE [t EXCEPT !.grid = IF t.main_grid # None THEN t.main_grid[1] ELSE @,
                        !.alt_buffer_active = enable]
    ELSE t

\* VirtualTerminal::use_alternate_buffer (vt.rs:641-662)
use_alternate_buffer(t, enable) ==
    IF enable # t.alt_buffer_active
    THEN IF enable
         THEN [t EXCEPT !.main_grid = Some(t.grid),
                        !.grid = DefaultGrid(t.cols, t.rows),
                        !.alt_buffer_active = enable]
         ELSE [t EXCEPT !.grid = IF t.main_grid # None THEN t.main_grid[1] ELSE @,
                        !.main_grid = None,
                        !.alt_buffer_active = enable]
    ELSE t

(***************************************************************************)
(* new and resize with any arguments.  With a zero dimension the usize     *)
(* subtraction rows - 1 or cols - 1 underflows: the call aborts after the  *)
(* assignments already made (overflow checks on), or the value wraps to    *)
(* usize::MAX and the call returns (overflow checks off).  The results are *)
(* the states either build can leave; a wrapped bottom row usize::MAX is   *)
(* written -1, the value it is congruent to.                               *)
(***************************************************************************)
new_any(ncols, nrows) ==
    IF nrows >= 1 THEN {new(ncols, nrows)}
    ELSE {[new(ncols, nrows) EXCEPT !.status = st] : st \in {"Panic", "Wrapped"}}

resize_any(t, ncols, nrows) ==
    IF ncols >= 1 /\ nrows >= 1 THEN {resize(t, ncols, nrows)}
    ELSE IF ~Covers(t.grid, Min(t.cols, ncols), Min(t.rows, nrows)) THEN {Panic(t)}
    ELSE LET g == [t EXCEPT !.grid = resized_grid(t, ncols, nrows),
                            !.cols = ncols,
                            !.rows = nrows]
             \* min(cursor, usize::MAX) is the cursor itself
             r == IF nrows >= 1 THEN [g EXCEPT !.cursor_row = Min(@, nrows - 1)] ELSE g
         IN  { [g EXCEPT !.status = "Panic",
                         !.cursor_row = IF nrows >= 1 THEN r.cursor_row ELSE @],
               [r EXCEPT !.status = "Wrapped", !.scroll_region = <<0, nrows - 1>>] }

(***************************************************************************)
(* The calls made on a VirtualTerminal.                                    *)
(***************************************************************************)
\* Largest number of rows or columns of a buffer.
MaxDim == 2
\* Largest number of calls made on one buffer.
MaxSteps == 4

Dims == 1..MaxDim
\* Counts and modes given to the actions: 0, in range, and beyond any bound.
Counts == 0..(MaxDim + 1)

SgrInputs == {<<>>, <<1>>, <<7, 31>>}

\* The TerminalAction values given to process_action.
VtActions ==
    {Act("Print", <<c>>) : c \in {88, LF}}
    \cup {Act(ty, <<>>) : ty \in {"Bell", "Backspace", "Tab", "LineFeed", "CarriageReturn", "Reset"}}
    \cup {Act(ty, <<n>>) : ty \in {"CursorUp", "CursorDown", "CursorForward", "CursorBackward",
                                   "CursorNextLine", "CursorPreviousLine", "ScrollUp",
                                   "EraseInDisplay", "EraseInLine"},
                           n \in Counts}
    \cup {Act("EraseInDisplay", <<4>>)}
    \cup {Act("CursorPosition", <<r, c>>) : r \in Counts, c \in Counts}
    \cup {Act("SetGraphicsRendition", p) : p \in SgrInputs}
    \cup {Act("SetWindowTitle", <<84>>)}

\* The SetColorPalette(index, color) values given to process_action.
PaletteActions == {Act("SetColorPalette", <<5, "#112233">>)}

VTInit ==
    /\ \E c \in Dims, r \in Dims : vt = new(c, r)
    /\ vt_steps = 0
    /\ vt_last = "new"

\* vt.process_action(action)
ProcessAction ==
    /\ vt.status = "Ok"
    /\ vt_steps < MaxSteps
    /\ \/ \E action \in VtActions : vt' = process_action(vt, action)
       \/ \E action \in PaletteActions : vt' = process_action(vt, action)
    /\ vt_steps' = vt_steps + 1
    /\ vt_last' = "process_action"
    /\ UNCHANGED <<parser_vars, csi_vars, seq_vars, pty_vars, term_vars, nav_vars, hist_vars, stream_vars>>

\* vt.resize(cols, rows), cols, rows >= 1
Resize ==
    /\ vt.status = "Ok"
    /\ vt_steps < MaxSteps
    /\ \E c \in Dims, r \in Dims : vt' = resize(vt, c, r)
    /\ vt_steps' = vt_steps + 1
    /\ vt_last' = "resize"
    /\ UNCHANGED <<parser_vars, csi_vars, seq_vars, pty_vars, term_vars, nav_vars, hist_vars, stream_vars>>

\* vt.use_alternate_buffer(enable)
UseAlternateBuffer ==
    /\ vt.status = "Ok"
    /\ vt_steps < MaxSteps
    /\ \E enable \in BOOLEAN :
         /\ vt' = use_alternate_buffer(vt, enable)
         /\ vt_last' = IF enable THEN "use_alternate_buffer(true)"
                                 ELSE "use_alternate_buffer(false)"
    /\ vt_steps' = vt_steps + 1
    /\ UNCHANGED <<parser_vars, csi_vars, seq_vars, pty_vars, term_vars, nav_vars, hist_vars, stream_vars>>

NextVT == ProcessAction \/ Resize \/ UseAlternateBuffer

\* new(cols, rows) with any arguments
VTInitAny ==
    /\ \E c \in 0..MaxDim, r \in 0..MaxDim : vt \in new_any(c, r)
    /\ vt_steps = 0
    /\ vt_last = "new"

\* vt.resize(cols, rows) with any arguments
ResizeAny ==
    /\ vt.status = "Ok" /\ vt.rows >= 1 /\ vt.cols >= 1
    /\ vt_steps < MaxSteps
    /\ \E c \in 0..MaxDim, r \in 0..MaxDim : vt' \in resize_any(vt, c, r)
    /\ vt_steps' = vt_steps + 1
    /\ vt_last' = "resize"
    /\ UNCHANGED <<parser_vars, csi_vars, seq_vars, pty_vars, term_vars, nav_vars, hist_vars, stream_vars>>

\* The calls on a buffer that has at least one row and one column; the
\* calls on a buffer without are not modelled.
ProcessActionNonEmpty == vt.rows >= 1 /\ vt.cols >= 1 /\ ProcessAction
UseAlternateBufferNonEmpty == vt.rows >= 1 /\ vt.cols >= 1 /\ UseAlternateBuffer

NextVTAny == ResizeAny \/ ProcessActionNonEmpty \/ UseAlternateBufferNonEmpty

(***************************************************************************)
(* process_csi_sequence as a function of the accumulator it is given.      *)
(***************************************************************************)

\* Largest number of bytes between ESC [ and the final byte.
MaxParamLen == 3

\* Parameter bytes: the separator, two digits, and a byte ('?') that is
\* neither a digit nor a final byte.
CsiParamBytes == {SEMICOLON, 50, 51, 63}
\* The final bytes process_csi_sequence dispatches on: H f J K A B C D m.
CsiFinals == {72, 102, 74, 75, 65, 66, 67, 68, 109}

CsiInit ==
    /\ \E n \in 0..MaxParamLen : \E ps \in [1..n -> CsiParamBytes] : \E f \in CsiFinals :
          csi_buffer = <<ESC, LBRACKET>> \o ps \o <<f>>
    /\ csi_called = FALSE
    /\ csi_action = None

ProcessCsi ==
    /\ ~csi_called
    /\ csi_called' = TRUE
    /\ csi_action' = process_csi_sequence(csi_buffer).action
    /\ UNCHANGED <<csi_buffer, parser_vars, vt_vars, seq_vars, pty_vars, term_vars, nav_vars, hist_vars, stream_vars>>

NextCsi == ProcessCsi

(***************************************************************************)
(* The palette: SetColorPalette actions alone, on a buffer as new made it, *)
(* and get_color.                                                          *)
(***************************************************************************)
\* A mutant of get_color: the last palette entry is out of its range.
get_color_short(t, index) ==
    IF (index \div RGB_TAG) % 2 = 1
    THEN HexColor((index \div 65536) % 256, (index \div 256) % 256, index % 256)
    ELSE IF index < Len(t.color_palette) - 1 THEN t.color_palette[index + 1]
    ELSE "#FFFFFF"

\* VirtualTerminal::get_color (vt.rs:679-694)
get_color(t, index) ==
    IF (index \div RGB_TAG) % 2 = 1
    THEN HexColor((index \div 65536) % 256, (index \div 256) % 256, index % 256)
    ELSE IF index < Len(t.color_palette) THEN t.color_palette[index + 1]
    ELSE "#FFFFFF"

\* Palette indices (a u8): the first, an ANSI colour, the last.
PaletteIndices == {0, 5, 255}
\* Colour strings; the buffer stores them as given, whatever their form.
PaletteColours == {"#112233", "red"}

\* vt.process_action(SetColorPalette(index, color))
ProcessSetColorPalette ==
    /\ vt.status = "Ok"
    /\ vt_steps < MaxSteps
    /\ \E index \in PaletteIndices, color \in PaletteColours :
         vt' = process_action(vt, Act("SetColorPalette", <<index, color>>))
    /\ vt_steps' = vt_steps + 1
    /\ vt_last' = "process_action"
    /\ UNCHANGED <<parser_vars, csi_vars, seq_vars, pty_vars, term_vars, nav_vars, hist_vars, stream_vars>>

NextPalette == ProcessSetColorPalette

(***************************************************************************)
(* The parser fed one byte at a time, over the bytes state Normal tells    *)
(* apart.                                                                  *)
(***************************************************************************)
\* Number of bytes fed one at a time.
MaxBytes == 4

\* The five control bytes, ESC, a CSI introducer, a letter that is also a
\* two-byte escape ('A'), and a byte that is not ASCII.
ByteSamples == {BEL, BS, TAB, LF, CR, ESC, LBRACKET, 65, 255}

\* One call parser.parse(&[byte]).
ParseByte ==
    /\ parse_ok
    /\ Len(fed) < MaxBytes
    /\ \E byte \in ByteSamples :
         LET p == parse(state, escape_buffer, <<byte>>) IN
         /\ state' = p.state
         /\ escape_buffer' = p.escape_buffer
         /\ fed' = Append(fed, byte)
         /\ emitted' = emitted \o p.actions
         /\ parse_ok' = p.ok
         /\ resumed' = (state # "Normal")
    /\ UNCHANGED <<vt_vars, csi_vars, seq_vars, pty_vars, term_vars, nav_vars, hist_vars, stream_vars>>

NextBytes == ParseByte

(***************************************************************************)
(* A fresh parser, of the capacity the source gives it, given one whole    *)
(* input in one parse call: an OSC sequence that sets the title, or a CSI  *)
(* sequence that selects a graphic rendition.                              *)
(***************************************************************************)
\* Largest number of bytes of a title.
MaxTitleLen == 3
\* Largest number of fields of a CSI sequence.
MaxFields == 3

\* The bytes of a title: a letter ('T'), and the two bytes that mean
\* something to the OSC arm when they stand elsewhere (';' and a '\' that
\* does not follow ESC).
TitleBytes == {84, SEMICOLON, BACKSLASH}
\* The two terminators of an OSC: BEL, and ST = ESC '\'.
OscTerminators == {<<BEL>>, <<ESC, BACKSLASH>>}
\* The OSC commands that set the title: '0' and '2'.
TitleCommands == {48, 50}

OscInit ==
    /\ \E cmd \in TitleCommands, term \in OscTerminators :
         \E n \in 0..MaxTitleLen : \E title \in [1..n -> TitleBytes] :
            seq_input = <<ESC, RBRACKET, cmd, SEMICOLON>> \o title \o term
    /\ seq_called = FALSE
    /\ seq_parser = NewParser

\* Numeric fields, as <<the bytes, the value>>: "0", "1", "7", "31".
SgrFields == {<<<<48>>, 0>>, <<<<49>>, 1>>, <<<<55>>, 7>>, <<<<51, 49>>, 31>>}

\* The fields fs joined by ';'.
RECURSIVE JoinFields(_)
JoinFields(fs) ==
    IF fs = <<>> THEN <<>>
    ELSE IF Len(fs) = 1 THEN fs[1][1]
    ELSE fs[1][1] \o <<SEMICOLON>> \o JoinFields(Tail(fs))

SgrInit ==
    /\ \E k \in 1..MaxFields : \E fs \in [1..k -> SgrFields] :
         seq_input = <<ESC, LBRACKET>> \o JoinFields(fs) \o <<109>>
    /\ seq_called = FALSE
    /\ seq_parser = NewParser

\* TerminalParser::new().parse(seq_input)
ParseSequence ==
    /\ ~seq_called
    /\ seq_called' = TRUE
    /\ seq_parser' = parse_loop_with(NewParser, seq_input, SOURCE_MAX_ESCAPE_LEN)
    /\ UNCHANGED <<seq_input, parser_vars, vt_vars, csi_vars, pty_vars, term_vars, nav_vars, hist_vars, stream_vars>>

NextSequence == ParseSequence

(***************************************************************************)
(* The PTY pair (pty.rs).  PtyMaster and PtySlave each own one descriptor; *)
(* neither is Clone, so each is dropped at most once, in any order (the    *)
(* fields of PtyPair are public and can be moved out).  The reading task   *)
(* polls the master through AsyncRead; between a poll that returned        *)
(* Pending and the next one it is suspended, and the executor polls it     *)
(* again only when the waker it was given is invoked.                      *)
(***************************************************************************)
\* Largest number of bytes the slave side writes.
MaxPtyData == 3
\* Largest number of poll_shutdown calls.
MaxShutdowns == 2

\* nix::unistd::close(fd) on the descriptor of end ("master" or "slave").
close(closes, end) == [closes EXCEPT ![end] = @ + 1]

\* Drop for PtyMaster (pty.rs:127-131)
drop_master(closes) == close(closes, "master")

\* Drop for PtySlave (pty.rs:134-138)
drop_slave(closes) == close(closes, "slave")

\* A mutant of poll_shutdown: it closes the master descriptor itself.
poll_shutdown_closing(closes) == close(closes, "master")

\* PtyMaster::poll_shutdown (pty.rs:183-189): Ready(Ok(())), nothing closed.
poll_shutdown(closes) == closes

\* PtyMaster::poll_read (pty.rs:142-157) when read(2) returns at once: with
\* data, Ready(Ok) and the buffer advanced by what was read; without, on a
\* descriptor with O_NONBLOCK, EAGAIN and so Pending.  The Context (_cx) is
\* not used: no waker is registered anywhere.
poll_read(data) ==
    IF data # <<>> THEN [poll |-> "Ready", read |-> data]
    ELSE [poll |-> "Pending", read |-> <<>>]

\* PtyPair::new (pty.rs:31-46): both descriptors open, as openpty made them.
\* The O_NONBLOCK flag is not set by new; a caller can set it through
\* as_raw_fd (pty.rs:88-92), so both modes are states of the pair.
PtyInit ==
    /\ pty_alive = [master |-> TRUE, slave |-> TRUE]
    /\ pty_closes = [master |-> 0, slave |-> 0]
    /\ pty_nonblocking \in BOOLEAN
    /\ pty_data = <<>>
    /\ reader = "idle"
    /\ pty_received = <<>>
    /\ pty_shutdowns = 0

\* The reading task is polled: master.poll_read(cx, buf).  On a blocking
\* descriptor without data, read(2) does not return: the thread that polls
\* is blocked inside it.
PollRead ==
    /\ pty_alive.master
    /\ reader \in {"idle", "ready"}
    /\ IF pty_data = <<>> /\ ~pty_nonblocking
       THEN reader' = "blocked" /\ UNCHANGED <<pty_data, pty_received>>
       ELSE LET r == poll_read(pty_data) IN
            /\ reader' = IF r.poll = "Ready" THEN "ready" ELSE "pending"
            /\ pty_received' = pty_received \o r.read
            /\ pty_data' = <<>>
    /\ UNCHANGED <<pty_alive, pty_closes, pty_nonblocking, pty_shutdowns>>
    /\ UNCHANGED <<parser_vars, vt_vars, csi_vars, seq_vars, term_vars, nav_vars, hist_vars, stream_vars>>

\* The process on the slave side writes a byte: the master becomes
\* readable.  A read(2) blocked on the master returns with the byte.  A
\* suspended task is made runnable by the waker registered for the
\* descriptor, and poll_read registered none.
SlaveWrite ==
    /\ Len(pty_received) + Len(pty_data) < MaxPtyData
    /\ \E byte \in {97, 98} :
         IF reader = "blocked"
         THEN /\ reader' = "ready"
              /\ pty_received' = Append(pty_received, byte)
              /\ UNCHANGED pty_data
         ELSE /\ pty_data' = Append(pty_data, byte)
              /\ UNCHANGED <<reader, pty_received>>
    /\ UNCHANGED <<pty_alive, pty_closes, pty_nonblocking, pty_shutdowns>>
    /\ UNCHANGED <<parser_vars, vt_vars, csi_vars, seq_vars, term_vars, nav_vars, hist_vars, stream_vars>>

\* master.poll_shutdown(cx); it takes &mut self, so no read is in flight.
PollShutdown ==
    /\ pty_alive.master
    /\ reader \in {"idle", "ready"}
    /\ pty_shutdowns < MaxShutdowns
    /\ pty_closes' = poll_shutdown(pty_closes)
    /\ pty_shutdowns' = pty_shutdowns + 1
    /\ UNCHANGED <<pty_alive, pty_nonblocking, pty_data, reader, pty_received>>
    /\ UNCHANGED <<parser_vars, vt_vars, csi_vars, seq_vars, term_vars, nav_vars, hist_vars, stream_vars>>

\* The PtyMaster goes out of scope; a read in flight borrows it, so none is.
DropMaster ==
    /\ pty_alive.master
    /\ reader \in {"idle", "ready"}
    /\ pty_alive' = [pty_alive EXCEPT !.master = FALSE]
    /\ pty_closes' = drop_master(pty_closes)
    /\ UNCHANGED <<pty_nonblocking, pty_data, reader, pty_received, pty_shutdowns>>
    /\ UNCHANGED <<parser_vars, vt_vars, csi_vars, seq_vars, term_vars, nav_vars, hist_vars, stream_vars>>

\* The PtySlave goes out of scope.
DropSlave ==
    /\ pty_alive.slave
    /\ pty_alive' = [pty_alive EXCEPT !.slave = FALSE]
    /\ pty_closes' = drop_slave(pty_closes)
    /\ UNCHANGED <<pty_nonblocking, pty_data, reader, pty_received, pty_shutdowns>>
    /\ UNCHANGED <<parser_vars, vt_vars, csi_vars, seq_vars, term_vars, nav_vars, hist_vars, stream_vars>>

NextPty == PollRead \/ SlaveWrite \/ PollShutdown \/ DropMaster \/ DropSlave

(***************************************************************************)
(* The Terminal facade (lib.rs:13-49).  The struct holds a Config and the  *)
(* sending half of the event channel and nothing else: no PTY pair and no  *)
(* child process.  Each method returns what the source returns, with the   *)
(* bytes it writes to a PTY master and the events it sends.                *)
(***************************************************************************)
MaxWritten == 4

WriteBytes == {97, 98}
WriteChunks == {<<a>> : a \in WriteBytes} \cup {<<a, b>> : a \in WriteBytes, b \in WriteBytes}
TerminalSizes == {24, 80}

\* Terminal::initialize (lib.rs:37-39)
Terminal_initialize == [result |-> "Ok", written |-> <<>>, events |-> <<>>]

\* Terminal::resize (lib.rs:42-44)
Terminal_resize(cols, rows) == [result |-> "Ok", written |-> <<>>, events |-> <<>>]

\* Terminal::write (lib.rs:46-48)
Terminal_write(data) == [result |-> "Ok", written |-> <<>>, events |-> <<>>]

\* Terminal::new (lib.rs:29-34)
TerminalInit ==
    /\ term_accepted = <<>>
    /\ term_master = <<>>
    /\ term_events = <<>>
    /\ term_last = [call |-> "new", args |-> <<>>, result |-> "Ok"]

Initialize ==
    LET r == Terminal_initialize IN
    /\ term_last' = [call |-> "initialize", args |-> <<>>, result |-> r.result]
    /\ term_master' = term_master \o r.written
    /\ term_events' = term_events \o r.events
    /\ UNCHANGED term_accepted
    /\ UNCHANGED <<parser_vars, vt_vars, csi_vars, seq_vars, pty_vars, nav_vars, hist_vars, stream_vars>>

TerminalResize ==
    \E cols \in TerminalSizes, rows \in TerminalSizes :
        LET r == Terminal_resize(cols, rows) IN
        /\ term_last' = [call |-> "resize", args |-> <<cols, rows>>, result |-> r.result]
        /\ term_master' = term_master \o r.written
        /\ term_events' = term_events \o r.events
        /\ UNCHANGED term_accepted
        /\ UNCHANGED <<parser_vars, vt_vars, csi_vars, seq_vars, pty_vars, nav_vars, hist_vars, stream_vars>>

Write ==
    \E data \in WriteChunks :
        LET r == Terminal_write(data) IN
        /\ Len(term_accepted) + Len(data) <= MaxWritten
        /\ term_last' = [call |-> "write", args |-> data, result |-> r.result]
        /\ term_accepted' = IF r.result = "Ok" THEN term_accepted \o data ELSE term_accepted
        /\ term_master' = term_master \o r.written
        /\ term_events' = term_events \o r.events
        /\ UNCHANGED <<parser_vars, vt_vars, csi_vars, seq_vars, pty_vars, nav_vars, hist_vars, stream_vars>>

NextTerminal == Initialize \/ TerminalResize \/ Write

(***************************************************************************)
(* Block navigation (navigation.rs).  history is a Vec indexed from 0 in   *)
(* the source and a sequence indexed from 1 here: history[k] of the source *)
(* is history[k + 1] of the model.  bookmarks maps each name to None or to *)
(* Some(block id).                                                         *)
(***************************************************************************)
MaxNavCalls == 5

BlockIds == {1, 2, 3}
BookmarkNames == {"a"}

\* BlockNavigation::new (navigation.rs:16-23)
BlockNavigation_new ==
    [current_block_id |-> None, history |-> <<>>, history_position |-> 0,
     bookmarks |-> [name \in BookmarkNames |-> None]]

\* A mutant of set_current_block: the block is set without the test for the
\* block that is already current.
set_current_block_always(n, block_id) ==
    LET truncated == IF n.history_position < Len(n.history)
                     THEN SubSeq(n.history, 1, n.history_position)
                     ELSE n.history
        pushes == n.current_block_id # None
    IN  [n EXCEPT !.history = IF pushes THEN Append(truncated, n.current_block_id[1])
                              ELSE truncated,
                  !.history_position = IF pushes THEN @ + 1 ELSE @,
                  !.current_block_id = Some(block_id)]

\* set_current_block (navigation.rs:26-41)
set_current_block(n, block_id) ==
    IF Some(block_id) # n.current_block_id
    THEN LET truncated == IF n.history_position < Len(n.history)
                          THEN SubSeq(n.history, 1, n.history_position)
                          ELSE n.history
             pushes == n.current_block_id # None
         IN  [n EXCEPT !.history = IF pushes THEN Append(truncated, n.current_block_id[1])
                                   ELSE truncated,
                       !.history_position = IF pushes THEN @ + 1 ELSE @,
                       !.current_block_id = Some(block_id)]
    ELSE n

\* go_back (navigation.rs:44-53): the navigation it leaves and what it
\* returns; status is "Panic" when history is indexed out of range.
go_back(n) ==
    IF n.history_position > 0
    THEN LET pos == n.history_position - 1 IN
         IF pos < Len(n.history)
         THEN [nav |-> [n EXCEPT !.history_position = pos,
                                 !.current_block_id = Some(n.history[pos + 1])],
               result |-> Some(n.history[pos + 1]), status |-> "Ok"]
         ELSE [nav |-> [n EXCEPT !.history_position = pos], result |-> None,
               status |-> "Panic"]
    ELSE [nav |-> n, result |-> None, status |-> "Ok"]

\* go_forward (navigation.rs:56-65)
go_forward(n) ==
    IF n.history_position < Len(n.history)
    THEN LET block_id == n.history[n.history_position + 1] IN
         [nav |-> [n EXCEPT !.history_position = @ + 1,
                            !.current_block_id = Some(block_id)],
          result |-> Some(block_id), status |-> "Ok"]
    ELSE [nav |-> n, result |-> None, status |-> "Ok"]

\* bookmark (navigation.rs:68-70)
bookmark(n, name, block_id) == [n EXCEPT !.bookmarks[name] = Some(block_id)]

\* go_to_bookmark (navigation.rs:73-80)
go_to_bookmark(n, name) ==
    IF n.bookmarks[name] # None
    THEN [nav |-> set_current_block(n, n.bookmarks[name][1]),
          result |-> n.bookmarks[name], status |-> "Ok"]
    ELSE [nav |-> n, result |-> None, status |-> "Ok"]

NavCall(call, arg, result, status) ==
    [call |-> call, arg |-> arg, result |-> result, status |-> status,
     before |-> nav.current_block_id]

NavigationInit == nav = BlockNavigation_new /\ nav_log = <<>>

\* No call is made on a value whose method panicked.
NavLive == Len(nav_log) < MaxNavCalls /\ \A k \in DOMAIN nav_log : nav_log[k].status = "Ok"

SetCurrentBlock ==
    \E block_id \in BlockIds :
        /\ NavLive
        /\ nav' = set_current_block(nav, block_id)
        /\ nav_log' = Append(nav_log, NavCall("set_current_block", <<block_id>>, None, "Ok"))
        /\ UNCHANGED <<parser_vars, vt_vars, csi_vars, seq_vars, pty_vars, term_vars, hist_vars, stream_vars>>

GoBack ==
    LET r == go_back(nav) IN
    /\ NavLive
    /\ nav' = r.nav
    /\ nav_log' = Append(nav_log, NavCall("go_back", <<>>, r.result, r.status))
    /\ UNCHANGED <<parser_vars, vt_vars, csi_vars, seq_vars, pty_vars, term_vars, hist_vars, stream_vars>>

GoForward ==
    LET r == go_forward(nav) IN
    /\ NavLive
    /\ nav' = r.nav
    /\ nav_log' = Append(nav_log, NavCall("go_forward", <<>>, r.result, r.status))
    /\ UNCHANGED <<parser_vars, vt_vars, csi_vars, seq_vars, pty_vars, term_vars, hist_vars, stream_vars>>

Bookmark ==
    \E name \in BookmarkNames, block_id \in BlockIds :
        /\ NavLive
        /\ nav' = bookmark(nav, name, block_id)
        /\ nav_log' = Append(nav_log, NavCall("bookmark", <<name, block_id>>, None, "Ok"))
        /\ UNCHANGED <<parser_vars, vt_vars, csi_vars, seq_vars, pty_vars, term_vars, hist_vars, stream_vars>>

GoToBookmark ==
    \E name \in BookmarkNames :
        LET r == go_to_bookmark(nav, name) IN
        /\ NavLive
        /\ nav' = r.nav
        /\ nav_log' = Append(nav_log, NavCall("go_to_bookmark", <<name>>, r.result, r.status))
        /\ UNCHANGED <<parser_vars, vt_vars, csi_vars, seq_vars, pty_vars, term_vars, hist_vars, stream_vars>>

NextNavigation == SetCurrentBlock \/ GoBack \/ GoForward \/ Bookmark \/ GoToBookmark

(***************************************************************************)
(* A buffer given SetGraphicsRendition actions only.  The parameter lists  *)
(* hold every flag code alone, codes no arm of process_sgr matches, the    *)
(* colour codes, complete and truncated 38 and 48 groups, groups followed  *)
(* by one more code, and 24-bit groups with components above 255.          *)
(***************************************************************************)
MaxRenditions == 2

FlagSetCodes == {1, 3, 4, 5, 7, 8, 9}
FlagClearCodes == {22, 23, 24, 25, 27, 28, 29}
UnmatchedCodes == {2, 6, 26, 50, 108}
BackgroundCodes == {40, 41, 47, 49, 100, 107}
OversizedGroups ==
    {<<38, 2, 256, 0, 0>>, <<38, 2, 0, 256, 0>>, <<38, 2, 0, 0, 256>>, <<38, 2, 300, 300, 300>>}

RenditionInputs ==
    {<<>>, <<0>>, <<21>>, <<1, 3, 4, 5, 7, 8, 9>>, <<1, 22>>, <<22, 1>>, <<7, 0>>, <<0, 7>>}
    \cup {<<c>> : c \in FlagSetCodes \cup FlagClearCodes \cup UnmatchedCodes}
    \cup {<<c>> : c \in BackgroundCodes}
    \cup {<<31>>, <<39>>, <<91>>}
    \cup {<<38, 5, 9>>, <<38, 2, 1, 2, 3>>, <<48, 5, 9>>, <<48, 2, 1, 2, 3>>}
    \cup {<<38, 5, 9, 1>>, <<38, 2, 1, 2, 3, 4>>}
    \cup {<<38>>, <<38, 5>>, <<38, 2>>, <<38, 2, 1, 2>>, <<38, 7>>, <<48>>, <<48, 5>>, <<48, 2, 1>>}
    \cup OversizedGroups

RenditionInit ==
    /\ vt = new(1, 1)
    /\ vt_steps = 0
    /\ vt_last = "new"

\* vt.process_action(SetGraphicsRendition(params))
ProcessRendition ==
    /\ vt.status = "Ok"
    /\ vt_steps < MaxRenditions
    /\ \E params \in RenditionInputs :
         vt' = process_action(vt, Act("SetGraphicsRendition", params))
    /\ vt_steps' = vt_steps + 1
    /\ vt_last' = "process_action"
    /\ UNCHANGED <<parser_vars, csi_vars, seq_vars, pty_vars, term_vars, nav_vars, hist_vars, stream_vars>>

NextRendition == ProcessRendition

(***************************************************************************)
(* A fresh parser given ESC, one byte, and what follows it.                *)
(***************************************************************************)
\* What follows the escape sequence: nothing, or a letter.
EscapeTails == {<<>>, <<65>>}

EscapeInit ==
    /\ \E byte \in 0..255, tail \in EscapeTails : seq_input = <<ESC, byte>> \o tail
    /\ seq_called = FALSE
    /\ seq_parser = NewParser

(***************************************************************************)
(* A fresh parser of the capacity of the model given one CSI sequence      *)
(* whose final byte process_csi_sequence has no arm for, and what follows  *)
(* it.  The sequences run from the shortest to ones longer than the        *)
(* capacity.                                                               *)
(***************************************************************************)
\* The bytes between ESC [ and the final byte: a separator, a digit, and a
\* control byte.
UnsupportedParamBytes == {SEMICOLON, 50, BEL}
\* The final bytes with no arm at parser.rs:160-185.
UnsupportedFinals == (CSI_FINAL_LO..CSI_FINAL_HI) \ {65, 66, 67, 68, 72, 102, 74, 75, 109}
\* What follows the sequence: nothing, a letter, or another escape sequence.
UnsupportedTails == {<<>>, <<65>>, <<ESC, 65>>}

UnsupportedCsiInit ==
    /\ \E n \in 0..(max_escape_len + 1) : \E ps \in [1..n -> UnsupportedParamBytes] :
         \E final \in UnsupportedFinals, tail \in UnsupportedTails :
            seq_input = <<ESC, LBRACKET>> \o ps \o <<final>> \o tail
    /\ seq_called = FALSE
    /\ seq_parser = NewParser

\* TerminalParser { max_escape_len, .. }.parse(seq_input)
ParseBounded ==
    /\ ~seq_called
    /\ seq_called' = TRUE
    /\ seq_parser' = parse_loop_with(NewParser, seq_input, max_escape_len)
    /\ UNCHANGED <<seq_input, parser_vars, vt_vars, csi_vars, pty_vars, term_vars, nav_vars, hist_vars, stream_vars>>

NextBounded == ParseBounded

(***************************************************************************)
(* Command history (history.rs).  An entry is modelled by its command, a   *)
(* sequence of character codes; the other fields of HistoryEntry are not   *)
(* read by any method.  The source sets max_entries to 1000                *)
(* (history.rs:25, 37); the model keeps the name and scales it down so     *)
(* that the drain of add is explored.  entries is a Vec indexed from 0 in  *)
(* the source and a sequence indexed from 1 here.  The history file holds  *)
(* what save last wrote; save is taken to succeed.                         *)
(***************************************************************************)
max_entries == 2
MaxHistoryCalls == 4

\* Commands: "l", "c", and a blank one.
Commands == {<<108>>, <<99>>, <<SPACE>>}

\* entry.command.trim().is_empty() (history.rs:81)
trim_is_empty(command) == \A k \in DOMAIN command : command[k] \in {SPACE, TAB, LF, CR}

\* The history files save can have written: at most max_entries commands,
\* none blank, no two adjacent ones equal.
HistoryFiles ==
    {f \in UNION {[1..n -> Commands] : n \in 0..max_entries} :
        /\ \A k \in DOMAIN f : ~trim_is_empty(f[k])
        /\ \A k \in 1..(Len(f) - 1) : f[k] # f[k + 1]}

\* History::load (history.rs:44-67) on a file of these lines.
load(h, file) == [h EXCEPT !.entries = file, !.position = Len(file)]

\* History::with_file (history.rs:33-42)
with_file(file) ==
    load([entries |-> <<>>, max_entries |-> max_entries, position |-> 0, status |-> "Ok"],
         file)

\* Vec::get(i), i 0-based.
get(entries, i) == IF i < Len(entries) THEN Some(entries[i + 1]) ELSE None

\* History::add (history.rs:80-101): the history it leaves, before save.
add(h, command) ==
    IF trim_is_empty(command) THEN h
    ELSE IF h.entries # <<>> /\ h.entries[Len(h.entries)] = command THEN h
    ELSE LET pushed == Append(h.entries, command)
             to_remove == Len(pushed) - h.max_entries
             drained == IF Len(pushed) > h.max_entries
                        THEN SubSeq(pushed, to_remove + 1, Len(pushed))
                        ELSE pushed
         IN  [h EXCEPT !.entries = drained, !.position = Len(drained)]

\* add returns before save when it adds nothing (history.rs:82, 87).
add_saves(h, command) ==
    /\ ~trim_is_empty(command)
    /\ ~(h.entries # <<>> /\ h.entries[Len(h.entries)] = command)

\* History::up (history.rs:103-110)
up(h) ==
    IF h.position > 0
    THEN [hist |-> [h EXCEPT !.position = @ - 1], result |-> get(h.entries, h.position - 1)]
    ELSE [hist |-> h, result |-> None]

\* History::down (history.rs:112-119).  entries.len() - 1 is a usize
\* subtraction: on an empty history it panics in a build that checks
\* overflow (checked) and wraps to usize::MAX in one that does not.
down(h, checked) ==
    IF Len(h.entries) = 0
    THEN IF checked
         THEN [hist |-> [h EXCEPT !.status = "Panic"], result |-> None]
         ELSE [hist |-> [h EXCEPT !.position = @ + 1], result |-> get(h.entries, h.position + 1)]
    ELSE IF h.position < Len(h.entries) - 1
         THEN [hist |-> [h EXCEPT !.position = @ + 1],
               result |-> get(h.entries, h.position + 1)]
         ELSE [hist |-> h, result |-> None]

\* History::clear (history.rs:133-137): the history it leaves, before save.
clear(h) == [h EXCEPT !.entries = <<>>, !.position = 0]

HistoryCall(call, arg, result) ==
    [call |-> call, arg |-> arg, result |-> result, before |-> hist]

HistoryInit ==
    /\ \E file \in HistoryFiles : hist = with_file(file) /\ hist_file = file
    /\ hist_steps = 0
    /\ hist_last = [call |-> "with_file", arg |-> <<>>, result |-> None, before |-> <<>>]

\* No call is made on a value whose method panicked.
HistoryLive == hist.status = "Ok" /\ hist_steps < MaxHistoryCalls

Add ==
    \E command \in Commands :
        /\ HistoryLive
        /\ hist' = add(hist, command)
        /\ hist_file' = IF add_saves(hist, command) THEN hist'.entries ELSE hist_file
        /\ hist_steps' = hist_steps + 1
        /\ hist_last' = HistoryCall("add", command, None)
        /\ UNCHANGED <<parser_vars, vt_vars, csi_vars, seq_vars, pty_vars, term_vars, nav_vars, stream_vars>>

Up ==
    LET r == up(hist) IN
    /\ HistoryLive
    /\ hist' = r.hist
    /\ hist_steps' = hist_steps + 1
    /\ hist_last' = HistoryCall("up", <<>>, r.result)
    /\ UNCHANGED hist_file
    /\ UNCHANGED <<parser_vars, vt_vars, csi_vars, seq_vars, pty_vars, term_vars, nav_vars, stream_vars>>

Down ==
    \E checked \in BOOLEAN :
        LET r == down(hist, checked) IN
        /\ HistoryLive
        /\ hist' = r.hist
        /\ hist_steps' = hist_steps + 1
        /\ hist_last' = HistoryCall("down", <<>>, r.result)
        /\ UNCHANGED hist_file
        /\ UNCHANGED <<parser_vars, vt_vars, csi_vars, seq_vars, pty_vars, term_vars, nav_vars, stream_vars>>

Clear ==
    /\ HistoryLive
    /\ hist' = clear(hist)
    /\ hist_file' = <<>>
    /\ hist_steps' = hist_steps + 1
    /\ hist_last' = HistoryCall("clear", <<>>, None)
    /\ UNCHANGED <<parser_vars, vt_vars, csi_vars, seq_vars, pty_vars, term_vars, nav_vars, stream_vars>>

NextHistory == Add \/ Up \/ Down \/ Clear

(***************************************************************************)
(* A fresh parser given one terminated OSC sequence: the title commands,   *)
(* the palette command with indices up to 255, beyond, non-numeric and     *)
(* missing, other commands, and payloads without ';'.  Each case is the    *)
(* payload between ESC ] and the terminator, with the actions the          *)
(* documentation of the parser gives it; the arguments of SetColorPalette  *)
(* are the index followed by the bytes of the colour.                      *)
(***************************************************************************)
\* Titles and colour values: empty, a letter, two letters, and one holding
\* a ';'.
OscTexts == {<<>>, <<84>>, <<84, 85>>, <<84, SEMICOLON, 84>>}
\* Palette indices, as <<the bytes, the value>>: "0", "5", "255".
OscIndices == {<<<<48>>, 0>>, <<<<53>>, 5>>, <<<<50, 53, 53>>, 255>>}
\* Payloads that dispatch nothing: empty, no ';' ("0", "4", "T"), no
\* command (";"), another command ("5;T"), a palette command without a
\* second ';' ("4;5"), with a non-numeric index ("4;T;T"), with an index
\* above 255 ("4;256;T"), and with an empty index ("4;;T").
OscSilent ==
    {<<>>, <<48>>, <<52>>, <<84>>, <<SEMICOLON>>, <<53, SEMICOLON, 84>>,
     <<52, SEMICOLON, 53>>, <<52, SEMICOLON, 84, SEMICOLON, 84>>,
     <<52, SEMICOLON, 50, 53, 54, SEMICOLON, 84>>, <<52, SEMICOLON, SEMICOLON, 84>>}

OscCases ==
    {<<<<cmd, SEMICOLON>> \o text, <<Act("SetWindowTitle", text)>>>> :
        cmd \in TitleCommands, text \in OscTexts}
    \cup {<<<<52, SEMICOLON>> \o index[1] \o <<SEMICOLON>> \o text,
            <<Act("SetColorPalette", <<index[2]>> \o text)>>>> :
            index \in OscIndices, text \in OscTexts}
    \cup {<<payload, <<>>>> : payload \in OscSilent}

OscDispatchInit ==
    /\ \E case \in OscCases, term \in OscTerminators :
         seq_input = <<ESC, RBRACKET>> \o case[1] \o term
    /\ seq_called = FALSE
    /\ seq_parser = NewParser


(***************************************************************************)
(* Printing (vt.rs:549-588): Print actions on buffers that are resized and *)
(* switched between the main and the alternate screen.                     *)
(***************************************************************************)
MaxPrintSteps == 5

PrintedBytes == {88, BEL, BS, TAB, LF, CR}

\* vt.process_action(TerminalAction::Print(b))
PutChar ==
    /\ vt.status = "Ok"
    /\ vt_steps < MaxPrintSteps
    /\ \E b \in PrintedBytes : vt' = process_action(vt, Act("Print", <<b>>))
    /\ vt_steps' = vt_steps + 1
    /\ vt_last' = "process_action"
    /\ UNCHANGED <<parser_vars, csi_vars, seq_vars, pty_vars, term_vars, nav_vars, hist_vars, stream_vars>>

\* vt.resize(cols, rows) between Print actions
ResizeScreen ==
    /\ vt.status = "Ok"
    /\ vt_steps < MaxPrintSteps
    /\ \E c \in Dims, r \in Dims : vt' = resize(vt, c, r)
    /\ vt_steps' = vt_steps + 1
    /\ vt_last' = "resize"
    /\ UNCHANGED <<parser_vars, csi_vars, seq_vars, pty_vars, term_vars, nav_vars, hist_vars, stream_vars>>

\* vt.use_alternate_buffer(enable) between Print actions
SwitchScreen ==
    /\ vt.status = "Ok"
    /\ vt_steps < MaxPrintSteps
    /\ \E enable \in BOOLEAN :
         /\ vt' = use_alternate_buffer(vt, enable)
         /\ vt_last' = IF enable THEN "use_alternate_buffer(true)"
                                 ELSE "use_alternate_buffer(false)"
    /\ vt_steps' = vt_steps + 1
    /\ UNCHANGED <<parser_vars, csi_vars, seq_vars, pty_vars, term_vars, nav_vars, hist_vars, stream_vars>>

NextPrint == PutChar \/ ResizeScreen \/ SwitchScreen

(***************************************************************************)
(* Tab stops (vt.rs:209-215): one-row buffers wide enough to hold tab      *)
(* stops, with the cursor moved along the row.                             *)
(***************************************************************************)
MaxTabSteps == 4

TabCols == {1, 8, 9, 17, 20}

TabMoves == {1, 3}

TabInit ==
    /\ \E c \in TabCols : vt = new(c, 1)
    /\ vt_steps = 0
    /\ vt_last = "new"

\* vt.process_action(TerminalAction::Tab)
Tab ==
    /\ vt_steps < MaxTabSteps
    /\ vt' = process_action(vt, Act("Tab", <<>>))
    /\ vt_steps' = vt_steps + 1
    /\ vt_last' = "Tab"
    /\ UNCHANGED <<parser_vars, csi_vars, seq_vars, pty_vars, term_vars, nav_vars, hist_vars, stream_vars>>

\* vt.process_action(TerminalAction::CursorForward(n))
CursorForward ==
    /\ vt_steps < MaxTabSteps
    /\ \E n \in TabMoves : vt' = process_action(vt, Act("CursorForward", <<n>>))
    /\ vt_steps' = vt_steps + 1
    /\ vt_last' = "CursorForward"
    /\ UNCHANGED <<parser_vars, csi_vars, seq_vars, pty_vars, term_vars, nav_vars, hist_vars, stream_vars>>

\* vt.process_action(TerminalAction::CarriageReturn)
CarriageReturn ==
    /\ vt_steps < MaxTabSteps
    /\ vt' = process_action(vt, Act("CarriageReturn", <<>>))
    /\ vt_steps' = vt_steps + 1
    /\ vt_last' = "CarriageReturn"
    /\ UNCHANGED <<parser_vars, csi_vars, seq_vars, pty_vars, term_vars, nav_vars, hist_vars, stream_vars>>

NextTab == Tab \/ CursorForward \/ CarriageReturn

(***************************************************************************)
(* Colours (vt.rs:679-694): the foreground colour is set by SGR 38 and the *)
(* palette by SetColorPalette; get_color is read in every state.           *)
(***************************************************************************)
MaxColorSteps == 3

\* r, g, b and the string get_color is to give for them.
TrueColours ==
    {<<1, 2, 3, "#010203">>, <<255, 255, 255, "#FFFFFF">>,
     <<0, 171, 9, "#00AB09">>, <<16, 0, 160, "#1000A0">>}

IndexedColours == {9, 300}

\* Values given to get_color: palette indices, values past the palette,
\* and values with bit 24 set, with the string expected of the latter.
TaggedValues ==
    {<<RGB_TAG, "#000000">>, <<RGB_TAG + 66051, "#010203">>,
     <<RGB_TAG + 43785, "#00AB09">>, <<3 * RGB_TAG + 11259375, "#ABCDEF">>}

UntaggedValues == {0, 5, 255, 256, 300, RGB_TAG - 1, 2 * RGB_TAG, 2 * RGB_TAG + 5}

ColorInit ==
    /\ vt = new(1, 1)
    /\ vt_steps = 0
    /\ vt_last = "new"

\* vt.process_action(SetGraphicsRendition([38, 2, r, g, b])) or ([38, 5, n])
SetForeground ==
    /\ vt_steps < MaxColorSteps
    /\ \/ \E tc \in TrueColours :
            vt' = process_action(vt, Act("SetGraphicsRendition",
                                         <<38, 2, tc[1], tc[2], tc[3]>>))
       \/ \E n \in IndexedColours :
            vt' = process_action(vt, Act("SetGraphicsRendition", <<38, 5, n>>))
    /\ vt_steps' = vt_steps + 1
    /\ vt_last' = "process_action"
    /\ UNCHANGED <<parser_vars, csi_vars, seq_vars, pty_vars, term_vars, nav_vars, hist_vars, stream_vars>>

\* vt.process_action(SetColorPalette(index, color))
SetPaletteEntry ==
    /\ vt_steps < MaxColorSteps
    /\ \E index \in PaletteIndices, color \in PaletteColours :
         vt' = process_action(vt, Act("SetColorPalette", <<index, color>>))
    /\ vt_steps' = vt_steps + 1
    /\ vt_last' = "process_action"
    /\ UNCHANGED <<parser_vars, csi_vars, seq_vars, pty_vars, term_vars, nav_vars, hist_vars, stream_vars>>

NextColor == SetForeground \/ SetPaletteEntry

(***************************************************************************)
(* A byte stream (parser.rs:40-124): one parser given bytes one at a time, *)
(* without end.  Only the run of bytes that left the parser outside Normal *)
(* is counted, so the stream itself has no bound.                          *)
(***************************************************************************)
StreamBytes == {ESC, LBRACKET, RBRACKET, LF, 72, BEL, BACKSLASH}

StreamInit ==
    /\ stream = NewParser
    /\ stream_run = 0
    /\ stream_last = [byte |-> 0, state |-> "none", escape_buffer |-> <<>>]

\* One iteration of the loop of parse on the next byte of the stream.
ParseStreamByte ==
    /\ stream.ok
    /\ stream_run <= max_escape_len
    /\ \E byte \in StreamBytes :
         LET p == parse_byte([stream EXCEPT !.actions = <<>>], byte) IN
         /\ stream' = p
         /\ stream_run' = IF p.state = "Normal" THEN 0 ELSE stream_run + 1
         /\ stream_last' = [byte |-> byte, state |-> stream.state,
                            escape_buffer |-> stream.escape_buffer]
    /\ UNCHANGED <<parser_vars, vt_vars, csi_vars, seq_vars, pty_vars, term_vars, nav_vars, hist_vars>>

NextStream == ParseStreamByte

(***************************************************************************)
(* Specifications.  Each one runs one component; the others do not exist.  *)
(***************************************************************************)
NoParser ==
    /\ state = "Normal" /\ escape_buffer = <<>> /\ fed = <<>> /\ emitted = <<>>
    /\ parse_ok = TRUE /\ resumed = FALSE
NoVT == vt = <<>> /\ vt_steps = 0 /\ vt_last = "none"
NoCsi == csi_buffer = <<>> /\ csi_called = FALSE /\ csi_action = None
NoSequence == seq_input = <<>> /\ seq_called = FALSE /\ seq_parser = NewParser
NoPty ==
    /\ pty_alive = [master |-> FALSE, slave |-> FALSE]
    /\ pty_closes = [master |-> 0, slave |-> 0]
    /\ pty_nonblocking = FALSE /\ pty_data = <<>> /\ reader = "none"
    /\ pty_received = <<>> /\ pty_shutdowns = 0
NoTerminal ==
    /\ term_accepted = <<>> /\ term_master = <<>> /\ term_events = <<>>
    /\ term_last = [call |-> "none", args |-> <<>>, result |-> "none"]
NoNavigation == nav = <<>> /\ nav_log = <<>>
NoHistory ==
    /\ hist = <<>> /\ hist_file = <<>> /\ hist_steps = 0
    /\ hist_last = [call |-> "none", arg |-> <<>>, result |-> None, before |-> <<>>]
NoStream == stream = <<>> /\ stream_run = 0 /\ stream_last = <<>>

InitParser == ParserInit /\ NoVT /\ NoCsi /\ NoSequence /\ NoPty /\ NoTerminal /\ NoNavigation /\ NoHistory /\ NoStream
SpecParser == InitParser /\ [][NextParser]_vars

InitVT == VTInit /\ NoParser /\ NoCsi /\ NoSequence /\ NoPty /\ NoTerminal /\ NoNavigation /\ NoHistory /\ NoStream
SpecVT == InitVT /\ [][NextVT]_vars

InitVTAny == VTInitAny /\ NoParser /\ NoCsi /\ NoSequence /\ NoPty /\ NoTerminal /\ NoNavigation /\ NoHistory /\ NoStream
SpecVTAny == InitVTAny /\ [][NextVTAny]_vars

InitCsi == CsiInit /\ NoParser /\ NoVT /\ NoSequence /\ NoPty /\ NoTerminal /\ NoNavigation /\ NoHistory /\ NoStream
SpecCsi == InitCsi /\ [][NextCsi]_vars

\* A buffer given SetColorPalette actions only.
SpecPalette == InitVT /\ [][NextPalette]_vars

\* The parser fed one byte at a time.
InitBytes == ParserInit /\ NoVT /\ NoCsi /\ NoSequence /\ NoPty /\ NoTerminal /\ NoNavigation /\ NoHistory /\ NoStream
SpecBytes == InitBytes /\ [][NextBytes]_vars

\* A fresh parser given one title-setting OSC sequence.
InitOsc == OscInit /\ NoParser /\ NoVT /\ NoCsi /\ NoPty /\ NoTerminal /\ NoNavigation /\ NoHistory /\ NoStream
SpecOsc == InitOsc /\ [][NextSequence]_vars

\* A fresh parser given one SGR sequence.
InitSgr == SgrInit /\ NoParser /\ NoVT /\ NoCsi /\ NoPty /\ NoTerminal /\ NoNavigation /\ NoHistory /\ NoStream
SpecSgr == InitSgr /\ [][NextSequence]_vars

\* The PTY pair and its reading task.
InitPty == PtyInit /\ NoParser /\ NoVT /\ NoCsi /\ NoSequence /\ NoTerminal /\ NoNavigation /\ NoHistory /\ NoStream
SpecPty == InitPty /\ [][NextPty]_vars

\* The same under the scheduling of the executor and of the slave side: a
\* runnable task is eventually polled, and a write that can be made is
\* eventually made.
SpecPtyFair == SpecPty /\ WF_vars(PollRead) /\ WF_vars(SlaveWrite)

\* The Terminal facade and its caller.
InitTerminal == TerminalInit /\ NoParser /\ NoVT /\ NoCsi /\ NoSequence /\ NoPty /\ NoNavigation /\ NoHistory /\ NoStream
SpecTerminal == InitTerminal /\ [][NextTerminal]_vars

\* One BlockNavigation and its caller.
InitNavigation == NavigationInit /\ NoParser /\ NoVT /\ NoCsi /\ NoSequence /\ NoPty /\ NoTerminal /\ NoHistory /\ NoStream
SpecNavigation == InitNavigation /\ [][NextNavigation]_vars

\* A buffer given SetGraphicsRendition actions only.
InitRendition == RenditionInit /\ NoParser /\ NoCsi /\ NoSequence /\ NoPty /\ NoTerminal /\ NoNavigation /\ NoHistory /\ NoStream
SpecRendition == InitRendition /\ [][NextRendition]_vars

\* A fresh parser given ESC and one byte.
InitEscape == EscapeInit /\ NoParser /\ NoVT /\ NoCsi /\ NoPty /\ NoTerminal /\ NoNavigation /\ NoHistory /\ NoStream
SpecEscape == InitEscape /\ [][NextSequence]_vars

\* A fresh parser given one unsupported CSI sequence.
InitUnsupportedCsi == UnsupportedCsiInit /\ NoParser /\ NoVT /\ NoCsi /\ NoPty /\ NoTerminal /\ NoNavigation /\ NoHistory /\ NoStream
SpecUnsupportedCsi == InitUnsupportedCsi /\ [][NextBounded]_vars

\* One History and its caller.
InitHistory == HistoryInit /\ NoParser /\ NoVT /\ NoCsi /\ NoSequence /\ NoPty /\ NoTerminal /\ NoNavigation /\ NoStream
SpecHistory == InitHistory /\ [][NextHistory]_vars

\* A fresh parser given one terminated OSC sequence.
InitOscDispatch == OscDispatchInit /\ NoParser /\ NoVT /\ NoCsi /\ NoPty /\ NoTerminal /\ NoNavigation /\ NoHistory /\ NoStream
SpecOscDispatch == InitOscDispatch /\ [][NextSequence]_vars

SpecPrint == InitVT /\ [][NextPrint]_vars

InitTab == TabInit /\ NoParser /\ NoCsi /\ NoSequence /\ NoPty /\ NoTerminal /\ NoNavigation /\ NoHistory /\ NoStream
SpecTab == InitTab /\ [][NextTab]_vars

InitColor == ColorInit /\ NoParser /\ NoCsi /\ NoSequence /\ NoPty /\ NoTerminal /\ NoNavigation /\ NoHistory /\ NoStream
SpecColor == InitColor /\ [][NextColor]_vars

InitStream == StreamInit /\ NoParser /\ NoVT /\ NoCsi /\ NoSequence /\ NoPty /\ NoTerminal /\ NoNavigation /\ NoHistory
SpecStream == InitStream /\ [][NextStream]_vars

(***************************************************************************)
(*                              Properties                                 *)
(***************************************************************************)

(***************************************************************************)
(* C1. Chunk invariance: however the bytes fed so far were split into      *)
(* parse calls, the actions returned, concatenated, and the state and      *)
(* accumulator left are those of one parse call on all the bytes.          *)
(***************************************************************************)
ChunkInvariance ==
    LET w == parse("Normal", <<>>, fed) IN
    /\ emitted = w.actions
    /\ state = w.state
    /\ escape_buffer = w.escape_buffer

\* A call that started inside a CSI sequence completed it into an action.
ChunkInvarianceWitness ==
    /\ resumed
    /\ state = "Normal"
    /\ Len(escape_buffer) <= max_escape_len
    /\ emitted # <<>>
    /\ emitted[Len(emitted)] = Act("CursorPosition", <<2, 1>>)

(***************************************************************************)
(* C2. parse never fails: every call returns (Ok); no slice of the         *)
(* accumulator is out of range.                                            *)
(***************************************************************************)
ParseNeverFails == parse_ok

\* A malformed CSI and an oversized sequence were both parsed.
ParseNeverFailsWitness ==
    /\ parse_ok
    /\ Len(escape_buffer) > max_escape_len
    /\ state = "Normal"

(***************************************************************************)
(* C3. Oversized-sequence recovery: a byte appended in Csi or Osc that     *)
(* makes the accumulator longer than max_escape_len returns the parser to  *)
(* Normal and emits no action.  (Stated on the calls of one byte.)         *)
(***************************************************************************)
OversizeRecovery ==
    [][(/\ Len(fed') = Len(fed) + 1
        /\ state \in {"Csi", "Osc"}
        /\ Len(escape_buffer') > max_escape_len)
       => (state' = "Normal" /\ emitted' = emitted)]_vars

(***************************************************************************)
(* C4. The accumulator never holds more than max_escape_len bytes.         *)
(***************************************************************************)
AccumulatorBounded == Len(escape_buffer) <= max_escape_len

GridShape ==
    /\ Len(vt.grid) = vt.rows
    /\ \A i \in 1..Len(vt.grid) : Len(vt.grid[i]) = vt.cols

(***************************************************************************)
(* C7. rows >= 1 and cols >= 1 in every state, whatever the arguments of   *)
(* new and resize, and rows - 1 is never computed below zero.              *)
(***************************************************************************)
DimensionsPositive ==
    /\ vt.rows >= 1
    /\ vt.cols >= 1
    /\ vt.scroll_region[2] >= 0

(***************************************************************************)
(* C8. Alternate-buffer round trip: switching in makes the active grid all *)
(* default cells and stashes the main grid G; no call made while the       *)
(* alternate buffer is active changes the stash; switching out makes the   *)
(* active grid the stash, that is G cell for cell.                         *)
(***************************************************************************)
AltRoundTrip ==
    [][/\ (~vt.alt_buffer_active /\ vt'.alt_buffer_active)
            => (vt'.grid = DefaultGrid(vt.cols, vt.rows) /\ vt'.main_grid = Some(vt.grid))
       /\ (vt.alt_buffer_active /\ vt'.alt_buffer_active)
            => vt'.main_grid = vt.main_grid
       /\ (vt.alt_buffer_active /\ ~vt'.alt_buffer_active)
            => (vt.main_grid # None /\ vt'.grid = vt.main_grid[1])]_vars

\* The alternate buffer is active and written to, over a stashed main grid
\* that was written to.
AltRoundTripWitness ==
    /\ vt.alt_buffer_active
    /\ vt.main_grid # None
    /\ LET g == vt.main_grid[1] IN
       \E i \in 1..Len(g) : \E j \in 1..Len(g[i]) : g[i][j].character # SPACE
    /\ \E i \in 1..Len(vt.grid) : \E j \in 1..Len(vt.grid[i]) : vt.grid[i][j].character # SPACE

(***************************************************************************)
(* C9. Single level: a stashed main grid exists exactly when               *)
(* alt_buffer_active; use_alternate_buffer(true) while active and          *)
(* use_alternate_buffer(false) while inactive change nothing.              *)
(***************************************************************************)
AltSingleLevel ==
    [][/\ (vt.main_grid # None) <=> vt.alt_buffer_active
       /\ (vt'.main_grid # None) <=> vt'.alt_buffer_active
       /\ (vt_last' = "use_alternate_buffer(true)" /\ vt.alt_buffer_active) => vt' = vt
       /\ (vt_last' = "use_alternate_buffer(false)" /\ ~vt.alt_buffer_active) => vt' = vt]_vars

\* use_alternate_buffer(true) was called on an alternate buffer already
\* active and written to: a fresh switch would have left it blank.
AltSingleLevelWitness ==
    /\ vt_last = "use_alternate_buffer(true)"
    /\ vt.alt_buffer_active
    /\ vt.main_grid # None
    /\ \E i \in 1..Len(vt.grid) : \E j \in 1..Len(vt.grid[i]) : vt.grid[i][j].character # SPACE

(***************************************************************************)
(* C10. CSI parameters are positional: the k-th field between ESC [ and    *)
(* the final byte is the k-th parameter, and a field that is missing,      *)
(* empty or not a number takes the default of its operation without        *)
(* shifting the later fields.  H and f: row and column, default 1; J and   *)
(* K: mode, default 0; A, B, C, D: count, default 1.                       *)
(***************************************************************************)
\* The k-th field (from 1) of the parameter string, or d.
PositionalField(params_str, k, d) ==
    LET fields == split(params_str, SEMICOLON) IN
    IF k <= Len(fields) /\ parse_u32(fields[k]) # None THEN parse_u32(fields[k])[1] ELSE d

CsiPositional ==
    csi_called =>
        LET final_byte == csi_buffer[Len(csi_buffer)]
            ps == SubSeq(csi_buffer, 3, Len(csi_buffer) - 1)
            f1(d) == PositionalField(ps, 1, d)
        IN  CASE final_byte \in {72, 102} ->
                    csi_action = Some(Act("CursorPosition", <<f1(1), PositionalField(ps, 2, 1)>>))
              [] final_byte = 74 -> csi_action = Some(Act("EraseInDisplay", <<f1(0)>>))
              [] final_byte = 75 -> csi_action = Some(Act("EraseInLine", <<f1(0)>>))
              [] final_byte = 65 -> csi_action = Some(Act("CursorUp", <<f1(1)>>))
              [] final_byte = 66 -> csi_action = Some(Act("CursorDown", <<f1(1)>>))
              [] final_byte = 67 -> csi_action = Some(Act("CursorForward", <<f1(1)>>))
              [] final_byte = 68 -> csi_action = Some(Act("CursorBackward", <<f1(1)>>))
              [] OTHER -> TRUE



(***************************************************************************)
(* C11. OSC termination: ESC ] cmd ; T followed by BEL or by ESC '\' is    *)
(* ended by that terminator, and yields exactly SetWindowTitle(T), T being *)
(* the bytes strictly between "cmd ;" and the terminator, the same for     *)
(* both terminators, with no terminator byte in it.                        *)
(***************************************************************************)
\* The title of the sequence given: the bytes after ESC ] cmd ; and before
\* the terminator (one byte for BEL, two for ESC '\').
TitleGiven ==
    LET n == Len(seq_input) IN
    IF seq_input[n] = BEL THEN SubSeq(seq_input, 5, n - 1) ELSE SubSeq(seq_input, 5, n - 2)

OscTermination ==
    seq_called =>
        /\ seq_parser.ok
        /\ seq_parser.state = "Normal"
        /\ seq_parser.actions = <<Act("SetWindowTitle", TitleGiven)>>

(***************************************************************************)
(* C12. In state Normal a byte yields exactly one action or starts an      *)
(* escape: BEL, BS, TAB, LF, CR yield Bell, Backspace, Tab, LineFeed,      *)
(* CarriageReturn; ESC yields none, restarts the accumulator (it holds the *)
(* ESC alone) and moves to Escape; any other byte b yields Print(b) and    *)
(* stays in Normal.  Hence bytes without ESC and control bytes yield one   *)
(* Print each, in input order.                                             *)
(***************************************************************************)
\* The action the claim gives a byte other than ESC.
NormalActionClaimed(b) ==
    CASE b = 7 -> Act("Bell", <<>>)
      [] b = 8 -> Act("Backspace", <<>>)
      [] b = 9 -> Act("Tab", <<>>)
      [] b = 10 -> Act("LineFeed", <<>>)
      [] b = 13 -> Act("CarriageReturn", <<>>)
      [] OTHER -> Act("Print", <<b>>)

NormalStateBytes ==
    /\ []((\A i \in 1..Len(fed) : fed[i] \notin {7, 8, 9, 10, 13, 27})
            => emitted = [i \in 1..Len(fed) |-> Act("Print", <<fed[i]>>)])
    /\ [][(state = "Normal" /\ Len(fed') = Len(fed) + 1) =>
            LET b == fed'[Len(fed')] IN
            IF b = 27
            THEN emitted' = emitted /\ state' = "Escape" /\ escape_buffer' = <<27>>
            ELSE /\ emitted' = Append(emitted, NormalActionClaimed(b))
                 /\ state' = "Normal"
                 /\ escape_buffer' = escape_buffer]_vars

\* After a two-byte escape left its bytes in the accumulator, a printed
\* byte and a carriage return, an ESC restarted the accumulator.
NormalStateBytesWitness ==
    /\ fed = <<ESC, 65, CR, ESC>>
    /\ state = "Escape"
    /\ escape_buffer = <<ESC>>
    /\ emitted = <<Act("CursorUp", <<1>>), Act("CarriageReturn", <<>>)>>

ScrollUpPost(t, u, n) ==
    LET top == t.scroll_region[1]
        bottom == t.scroll_region[2]
        k == Min(n, bottom - top + 1)
    IN  /\ u.status = "Ok"
        /\ n = 0 => u = t
        /\ u.cursor_row = t.cursor_row /\ u.cursor_col = t.cursor_col
        /\ Len(u.grid) >= t.rows
        /\ \A r \in 0..(t.rows - 1) :
              u.grid[r + 1] =
                 IF r >= top /\ r <= bottom - k THEN t.grid[r + k + 1]
                 ELSE IF r > bottom - k /\ r <= bottom
                      THEN [j \in 1..t.cols |-> BlankCell(t.current_attributes)]
                      ELSE t.grid[r + 1]

ScrollUpEffect ==
    [][\A n \in Counts :
         (vt_last' = "process_action" /\ vt' = process_action(vt, Act("ScrollUp", <<n>>)))
            => ScrollUpPost(vt, vt', n)]_vars

(***************************************************************************)
(* C15. EraseInLine(2) sets every cell of the cursor's row to a space      *)
(* carrying current_attributes; EraseInLine(0) and EraseInLine(1) do so    *)
(* for the columns [cursor_col, cols-1] and [0, cursor_col] of that row.   *)
(* The cursor, every other cell, current_attributes and the scroll region  *)
(* are unchanged.                                                          *)
(***************************************************************************)
\* u is the buffer t after EraseInLine(mode), as the claim describes it.
EraseInLinePost(t, u, mode) ==
    LET from == IF mode = 0 THEN t.cursor_col ELSE 0
        to == IF mode = 1 THEN t.cursor_col ELSE t.cols - 1
    IN  /\ u.status = "Ok"
        /\ u.cursor_row = t.cursor_row /\ u.cursor_col = t.cursor_col
        /\ u.current_attributes = t.current_attributes
        /\ u.scroll_region = t.scroll_region
        /\ Len(u.grid) = Len(t.grid)
        /\ \A i \in 1..Len(t.grid) :
              /\ Len(u.grid[i]) = Len(t.grid[i])
              /\ \A j \in 1..Len(t.grid[i]) :
                    u.grid[i][j] =
                        IF i - 1 = t.cursor_row /\ j - 1 >= from /\ j - 1 <= to
                        THEN BlankCell(t.current_attributes)
                        ELSE t.grid[i][j]

EraseInLineEffect ==
    [][\A mode \in {0, 1, 2} :
         (vt_last' = "process_action" /\ vt' = process_action(vt, Act("EraseInLine", <<mode>>)))
            => EraseInLinePost(vt, vt', mode)]_vars

(***************************************************************************)
(* C17. Reset from any reachable buffer leaves the cursor at (0, 0),       *)
(* current_attributes the default attributes, the scroll region            *)
(* (0, rows-1), and every cell of the active grid a space with default     *)
(* attributes.                                                             *)
(***************************************************************************)
\* u is the buffer t after Reset, as the claim describes it.
ResetPost(t, u) ==
    /\ u.status = "Ok"
    /\ u.cursor_row = 0 /\ u.cursor_col = 0
    /\ u.current_attributes = DefaultAttributes
    /\ u.scroll_region = <<0, t.rows - 1>>
    /\ \A i \in 1..Len(u.grid) : \A j \in 1..Len(u.grid[i]) :
          u.grid[i][j] = [character |-> 32, attributes |-> DefaultAttributes]

ResetEffect ==
    [][(vt_last' = "process_action" /\ vt' = process_action(vt, Act("Reset", <<>>)))
            => ResetPost(vt, vt')]_vars

(***************************************************************************)
(* C18. resize(cols2, rows2) with cols2, rows2 >= 1: afterwards every cell *)
(* (r, c) with r < min(rows, rows2) and c < min(cols, cols2) is the old    *)
(* cell (r, c), every other cell is the default cell, the cursor is        *)
(* (min(old row, rows2-1), min(old col, cols2-1)) and the scroll region is *)
(* (0, rows2-1).                                                           *)
(***************************************************************************)
\* u is the buffer t after resize(cols2, rows2), as the claim describes it.
ResizePost(t, u, cols2, rows2) ==
    /\ u.status = "Ok"
    /\ u.cols = cols2 /\ u.rows = rows2
    /\ Len(u.grid) = rows2
    /\ \A i \in 1..rows2 :
          /\ Len(u.grid[i]) = cols2
          /\ \A j \in 1..cols2 :
                u.grid[i][j] =
                    IF i - 1 < Min(t.rows, rows2) /\ j - 1 < Min(t.cols, cols2)
                    THEN t.grid[i][j]
                    ELSE DefaultCell
    /\ u.cursor_row = Min(t.cursor_row, rows2 - 1)
    /\ u.cursor_col = Min(t.cursor_col, cols2 - 1)
    /\ u.scroll_region = <<0, rows2 - 1>>

ResizeEffect ==
    [][\A cols2 \in Dims, rows2 \in Dims :
         (vt_last' = "resize" /\ vt' = resize(vt, cols2, rows2))
            => ResizePost(vt, vt', cols2, rows2)]_vars


(***************************************************************************)
(* C16. Palette round trip: after process_action(SetColorPalette(i, c)),   *)
(* get_color(i) is exactly c and get_color(j) is what it was for every     *)
(* other index j in 0..255; the palette always has exactly 256 entries.    *)
(***************************************************************************)
PaletteRoundTrip ==
    /\ [](Len(vt.color_palette) = 256)
    /\ [][\A i \in PaletteIndices, c \in PaletteColours :
            (vt_last' = "process_action"
                /\ vt' = process_action(vt, Act("SetColorPalette", <<i, c>>)))
            => /\ get_color(vt', i) = c
               /\ \A j \in (0..255) \ {i} : get_color(vt', j) = get_color(vt, j)]_vars

\* The last entry and an ANSI colour were both overwritten, the first entry
\* is the one new gave it.
PaletteRoundTripWitness ==
    /\ vt_last = "process_action"
    /\ get_color(vt, 255) = "#112233"
    /\ get_color(vt, 5) = "red"
    /\ get_color(vt, 0) = "#000000"


(***************************************************************************)
(* C19. Releasing the PTY pair closes the master descriptor and the slave  *)
(* descriptor exactly once each: a descriptor whose owner is alive has not *)
(* been closed, one whose owner was dropped has been closed once, and none *)
(* is ever closed twice, poll_shutdown before the drop included.           *)
(***************************************************************************)
CloseExactlyOnce ==
    \A end \in {"master", "slave"} :
        /\ pty_closes[end] <= 1
        /\ pty_alive[end] => pty_closes[end] = 0
        /\ ~pty_alive[end] => pty_closes[end] = 1

\* poll_shutdown was called, then both ends were dropped.
CloseExactlyOnceWitness ==
    /\ pty_shutdowns >= 1
    /\ ~pty_alive.master /\ ~pty_alive.slave
    /\ pty_closes = [master |-> 1, slave |-> 1]

(***************************************************************************)
(* C20. A master-side read that finds no data suspends the reading task,   *)
(* and the task is resumed on readiness: whenever poll_read has returned   *)
(* Pending and data is readable on the master, the task is eventually      *)
(* polled again and its read completes with that data.                     *)
(***************************************************************************)
PendingReadResumes ==
    (reader = "pending" /\ pty_data # <<>>) ~> (reader = "ready")

(***************************************************************************)
(* C22. Terminal::write delivers: the bytes of the write calls that        *)
(* returned Ok are, in call order, exactly the bytes written to the PTY    *)
(* master.                                                                 *)
(***************************************************************************)
WriteDelivers == term_master = term_accepted

(***************************************************************************)
(* C24. Back/forward round trip: after two or more set_current_block calls *)
(* on distinct blocks, go_back returns and makes current the block that    *)
(* was current before the last of them, and a go_forward right after it    *)
(* returns and makes current the block that was current before go_back.    *)
(***************************************************************************)
SetsOfDistinctBlocks(k) ==
    /\ k >= 2
    /\ \A j \in 1..k : nav_log[j].call = "set_current_block"
    /\ \A i, j \in 1..k : i # j => nav_log[i].arg # nav_log[j].arg

BackForwardRoundTrip ==
    LET k == Len(nav_log) IN
    (/\ k >= 4
     /\ nav_log[k].call = "go_forward"
     /\ nav_log[k - 1].call = "go_back"
     /\ SetsOfDistinctBlocks(k - 2))
    => /\ nav_log[k - 1].result = nav_log[k - 2].before
       /\ nav_log[k].result = nav_log[k - 1].before
       /\ nav.current_block_id = nav_log[k - 1].before

(***************************************************************************)
(* The call process_action(SetGraphicsRendition(params)) has just been     *)
(* made on the buffer.                                                     *)
(***************************************************************************)
Rendered(params) ==
    /\ vt_last' = "process_action"
    /\ vt' = process_action(vt, Act("SetGraphicsRendition", params))

(***************************************************************************)
(* C25. An extended-colour group consumes exactly its own parameters: the  *)
(* code after a complete 38;5;n or 38;2;r;g;b group is processed, so       *)
(* [38,5,9,1] sets foreground 9 and bold, and [38,2,1,2,3,4] sets the RGB  *)
(* foreground and underline.                                               *)
(***************************************************************************)
ExtendedGroupConsumesOwn ==
    [][/\ Rendered(<<38, 5, 9, 1>>)
          => vt'.current_attributes =
                [vt.current_attributes EXCEPT !.fg_color = Some(9), !.bold = TRUE]
       /\ Rendered(<<38, 2, 1, 2, 3, 4>>)
          => vt'.current_attributes =
                [vt.current_attributes EXCEPT !.fg_color = Some(RGB_TAG + 66051),
                                              !.underline = TRUE]]_vars

(***************************************************************************)
(* C26. The background codes set bg_color and nothing else: 40..47 to      *)
(* code - 40, 100..107 to code - 100 + 8, 49 to the default 0, 48;5;n to n *)
(* and 48;2;r;g;b to the tagged RGB value.                                 *)
(***************************************************************************)
BackgroundOf(params) ==
    CASE Len(params) = 1 /\ params[1] \in 40..47 -> Some(params[1] - 40)
      [] Len(params) = 1 /\ params[1] \in 100..107 -> Some(params[1] - 100 + 8)
      [] Len(params) = 1 /\ params[1] = 49 -> Some(0)
      [] Len(params) = 3 /\ params[1] = 48 /\ params[2] = 5 -> Some(params[3])
      [] Len(params) = 5 /\ params[1] = 48 /\ params[2] = 2 ->
            Some(RGB_TAG + params[3] * 65536 + params[4] * 256 + params[5])
      [] OTHER -> None

BackgroundMirrorsForeground ==
    [][\A params \in RenditionInputs :
         (BackgroundOf(params) # None /\ Rendered(params))
            => vt'.current_attributes =
                  [vt.current_attributes EXCEPT !.bg_color = BackgroundOf(params)]]_vars

(***************************************************************************)
(* C27. Flag processing: an empty list or code 0 gives the default         *)
(* attributes; 1/3/4/5/7/8/9 set bold/italic/underline/blink/reverse/      *)
(* hidden/strikethrough and 22/23/24/25/27/28/29 clear them, each leaving  *)
(* the other flags and both colours as they were; a code no arm matches    *)
(* changes nothing; the codes of a list are applied left to right.         *)
(***************************************************************************)
FlagOf(code) ==
    CASE code \in {1, 22} -> "bold"
      [] code \in {3, 23} -> "italic"
      [] code \in {4, 24} -> "underline"
      [] code \in {5, 25} -> "blink"
      [] code \in {7, 27} -> "reverse"
      [] code \in {8, 28} -> "hidden"
      [] code \in {9, 29} -> "strikethrough"

FlagCodeEffect(attrs, code) ==
    IF code = 0 THEN DefaultAttributes
    ELSE IF code \in FlagSetCodes THEN [attrs EXCEPT ![FlagOf(code)] = TRUE]
    ELSE IF code \in FlagClearCodes THEN [attrs EXCEPT ![FlagOf(code)] = FALSE]
    ELSE attrs

RECURSIVE FlagListEffect(_, _)
FlagListEffect(attrs, params) ==
    IF params = <<>> THEN attrs
    ELSE FlagListEffect(FlagCodeEffect(attrs, Head(params)), Tail(params))

FlagList(params) ==
    \A k \in DOMAIN params :
        params[k] \in {0} \cup FlagSetCodes \cup FlagClearCodes \cup UnmatchedCodes

FlagProcessing ==
    [][\A params \in RenditionInputs :
         (FlagList(params) /\ Rendered(params))
            => vt'.current_attributes =
                  IF params = <<>> THEN DefaultAttributes
                  ELSE FlagListEffect(vt.current_attributes, params)]_vars

\* Every flag was set by one list and hidden alone was then cleared, the
\* colours being the ones new gave.
FlagProcessingWitness ==
    /\ vt_last = "process_action"
    /\ vt_steps = 2
    /\ vt.current_attributes =
          [DefaultAttributes EXCEPT !.bold = TRUE, !.italic = TRUE, !.underline = TRUE,
                                    !.blink = TRUE, !.reverse = TRUE,
                                    !.strikethrough = TRUE]

(***************************************************************************)
(* C28. A 24-bit group with a component above 255 either leaves the        *)
(* foreground as it was or stores a tagged colour each of whose channels   *)
(* comes from its own component, clamped to 255 or masked to its low byte, *)
(* with no bit above the tag.                                              *)
(***************************************************************************)
ChannelFrom(channel, component) ==
    channel = Min(component, 255) \/ channel = component % 256

OversizedComponentsContained ==
    [][\A params \in OversizedGroups :
         Rendered(params)
            => LET old == vt.current_attributes
                   fg == vt'.current_attributes.fg_color
               IN  /\ vt'.current_attributes = [old EXCEPT !.fg_color = fg]
                   /\ \/ fg = old.fg_color
                      \/ /\ fg[1] \div RGB_TAG = 1
                         /\ ChannelFrom((fg[1] \div 65536) % 256, params[3])
                         /\ ChannelFrom((fg[1] \div 256) % 256, params[4])
                         /\ ChannelFrom(fg[1] % 256, params[5])]_vars

(***************************************************************************)
(* C23. process_action never fails: whatever the action and the buffer     *)
(* state, the call returns; a movement count beyond the grid leaves the    *)
(* cursor on the grid's edge, and an erase mode the source does not        *)
(* document leaves the buffer as it was.                                   *)
(***************************************************************************)
ProcessActionPost(t, u, action) ==
    LET ty == action.type
        a == action.args
    IN  /\ u.status = "Ok"
        /\ (ty \in {"CursorDown", "CursorNextLine"} /\ a[1] >= t.rows)
              => u.cursor_row = t.rows - 1
        /\ (ty \in {"CursorUp", "CursorPreviousLine"} /\ a[1] >= t.rows)
              => u.cursor_row = 0
        /\ (ty = "CursorForward" /\ a[1] >= t.cols) => u.cursor_col = t.cols - 1
        /\ (ty = "CursorBackward" /\ a[1] >= t.cols) => u.cursor_col = 0
        /\ (ty = "CursorPosition" /\ a[1] > t.rows) => u.cursor_row = t.rows - 1
        /\ (ty = "CursorPosition" /\ a[2] > t.cols) => u.cursor_col = t.cols - 1
        /\ (ty = "CursorPosition" /\ a[1] = 0) => u.cursor_row = 0
        /\ (ty = "CursorPosition" /\ a[2] = 0) => u.cursor_col = 0
        /\ (ty = "EraseInDisplay" /\ a[1] > 3) => u = t
        /\ (ty = "EraseInLine" /\ a[1] > 2) => u = t

ProcessActionNeverFails ==
    [][\A action \in VtActions :
         (vt_last' = "process_action" /\ vt' = process_action(vt, action))
            => ProcessActionPost(vt, vt', action)]_vars

(***************************************************************************)
(* C29. An unsupported CSI sequence is consumed whole: up to and including *)
(* its final byte, the first byte in 0x40..0x7E after ESC [, no action is  *)
(* emitted, the parser is then in Normal, and what follows is parsed as a  *)
(* fresh parser parses it.                                                 *)
(***************************************************************************)
\* The place of the final byte in a sequence that starts with ESC [.
FinalIndex(input) ==
    CHOOSE k \in 3..Len(input) :
        /\ input[k] \in CSI_FINAL_LO..CSI_FINAL_HI
        /\ \A j \in 3..(k - 1) : input[j] \notin CSI_FINAL_LO..CSI_FINAL_HI

ConsumedWhole ==
    LET k == FinalIndex(seq_input)
        fresh == parse_loop_with(NewParser, SubSeq(seq_input, k + 1, Len(seq_input)),
                                 max_escape_len)
    IN  /\ seq_parser.ok
        /\ seq_parser.actions = fresh.actions
        /\ seq_parser.state = fresh.state

EscapeTable(byte) ==
    CASE byte = 65 -> <<Act("CursorUp", <<1>>)>>
      [] byte = 66 -> <<Act("CursorDown", <<1>>)>>
      [] byte = 67 -> <<Act("CursorForward", <<1>>)>>
      [] byte = 68 -> <<Act("CursorBackward", <<1>>)>>
      [] byte = 69 -> <<Act("CursorNextLine", <<1>>)>>
      [] byte = 70 -> <<Act("CursorPreviousLine", <<1>>)>>
      [] byte = 72 -> <<Act("CursorPosition", <<1, 1>>)>>
      [] byte = 74 -> <<Act("EraseInDisplay", <<0>>)>>
      [] byte = 75 -> <<Act("EraseInLine", <<0>>)>>
      [] byte = 77 -> <<Act("ScrollUp", <<1>>)>>
      [] byte = 99 -> <<Act("Reset", <<>>)>>
      [] OTHER -> <<>>

EscapeByte ==
    seq_called =>
        LET byte == seq_input[2]
            tail == SubSeq(seq_input, 3, Len(seq_input))
        IN  /\ seq_parser.ok
            /\ byte = RBRACKET =>
                  (seq_parser.state = "Osc" /\ seq_parser.actions = <<>>)
            /\ (byte = LBRACKET /\ tail = <<>>) =>
                  (seq_parser.state = "Csi" /\ seq_parser.actions = <<>>)
            /\ byte \notin {RBRACKET, LBRACKET} =>
                  /\ seq_parser.state = "Normal"
                  /\ seq_parser.actions =
                        EscapeTable(byte) \o [k \in 1..Len(tail) |-> Act("Print", <<tail[k]>>)]

\* ESC M gave ScrollUp(1) and the letter after it was printed.
EscapeByteWitness ==
    /\ seq_called
    /\ seq_input = <<ESC, 77, 65>>
    /\ seq_parser.actions = <<Act("ScrollUp", <<1>>), Act("Print", <<65>>)>>

(***************************************************************************)
(* C39. Navigation index invariant: after any calls history_position is at *)
(* most history.len() and no call has indexed history out of range; and    *)
(* set_current_block with the block that is already current changes        *)
(* neither history nor history_position.                                   *)
(***************************************************************************)
NavigationIndexInvariant ==
    /\ [](/\ nav.history_position <= Len(nav.history)
          /\ \A k \in DOMAIN nav_log : nav_log[k].status = "Ok")
    /\ [][\A block_id \in BlockIds :
            (/\ nav.current_block_id = Some(block_id)
             /\ Len(nav_log') = Len(nav_log) + 1
             /\ nav_log'[Len(nav_log')].call = "set_current_block"
             /\ nav_log'[Len(nav_log')].arg = <<block_id>>)
            => (nav'.history = nav.history
                /\ nav'.history_position = nav.history_position)]_vars

\* set 1, set 2, go_back, then set 3 (which cuts the forward history) and
\* set 3 again.
NavigationIndexInvariantWitness ==
    /\ Len(nav_log) = 5
    /\ nav_log[3].call = "go_back" /\ nav_log[3].result = Some(1)
    /\ nav_log[4].call = "set_current_block" /\ nav_log[4].arg = <<3>>
    /\ nav_log[5].call = "set_current_block" /\ nav_log[5].arg = <<3>>
    /\ nav.history = <<1>> /\ nav.history_position = 1
    /\ nav.current_block_id = Some(3)

(***************************************************************************)
(* C40. History cursor invariant: after any add, up, down and clear calls  *)
(* no call has failed, position is at most entries.len(), entries.len() is *)
(* at most max_entries, and no two adjacent entries have the same command; *)
(* up at position 0, and down at the newest entry, past it, or on an empty *)
(* history, return None and leave the history as it was.                   *)
(***************************************************************************)
HistoryCursorInvariant ==
    /\ hist.status = "Ok"
    /\ hist.position <= Len(hist.entries)
    /\ Len(hist.entries) <= hist.max_entries
    /\ \A k \in 1..(Len(hist.entries) - 1) : hist.entries[k] # hist.entries[k + 1]
    /\ (hist_last.call = "up" /\ hist_last.before.position = 0)
          => (hist_last.result = None /\ hist = hist_last.before)
    /\ (hist_last.call = "down"
        /\ hist_last.before.position + 1 >= Len(hist_last.before.entries))
          => (hist_last.result = None /\ hist = hist_last.before)

(***************************************************************************)
(* C31. OSC dispatch: a terminated OSC with command 0 or 2 yields one      *)
(* SetWindowTitle(argument); command 4 with index;color and the index in   *)
(* 0..255 yields one SetColorPalette(index, color); any other payload      *)
(* yields nothing; and the parser is in Normal after the terminator.       *)
(***************************************************************************)
OscDispatch ==
    seq_called =>
        \E case \in OscCases, term \in OscTerminators :
            /\ seq_input = <<ESC, RBRACKET>> \o case[1] \o term
            /\ seq_parser.ok
            /\ seq_parser.state = "Normal"
            /\ seq_parser.actions = case[2]

(***************************************************************************)
(* C32. LineFeed with cursor_row below the bottom of the scroll region     *)
(* moves the cursor down one row and leaves the grid unchanged; with       *)
(* cursor_row at the bottom it leaves cursor_row and scrolls the region up *)
(* one line, as ScrollUp(1) does.  The column is unchanged either way.     *)
(***************************************************************************)
\* u is the buffer t after LineFeed, as the claim describes it.
LineFeedPost(t, u) ==
    /\ u.status = "Ok"
    /\ u.cursor_col = t.cursor_col
    /\ t.cursor_row < t.scroll_region[2]
          => u = [t EXCEPT !.cursor_row = t.cursor_row + 1]
    /\ t.cursor_row = t.scroll_region[2]
          => (u.cursor_row = t.cursor_row /\ ScrollUpPost(t, u, 1))

LineFeedEffect ==
    [][(vt_last' = "process_action" /\ vt' = process_action(vt, Act("LineFeed", <<>>)))
          => LineFeedPost(vt, vt')]_vars

(***************************************************************************)
(* C34. Print(b) of a non-control byte writes b with current_attributes at *)
(* the cursor cell and changes no other cell except by scrolling; below    *)
(* column cols-1 the cursor moves right one column; at cols-1 it moves to  *)
(* column 0 of the next row, and when the row was the bottom of the scroll *)
(* region the region scrolls up one line and the row stays.  Print of BEL, *)
(* BS, TAB, LF or CR behaves as the dedicated action.                      *)
(***************************************************************************)
\* The action that Print of a control byte stands for.
DedicatedAction(b) ==
    CASE b = BEL -> Act("Bell", <<>>)
      [] b = BS -> Act("Backspace", <<>>)
      [] b = TAB -> Act("Tab", <<>>)
      [] b = LF -> Act("LineFeed", <<>>)
      [] b = CR -> Act("CarriageReturn", <<>>)

\* The buffer t with b written at the cursor cell.
Written(t, b) ==
    [t EXCEPT !.grid =
        [i \in 1..Len(t.grid) |-> [j \in 1..Len(t.grid[i]) |->
            IF i - 1 = t.cursor_row /\ j - 1 = t.cursor_col
            THEN [character |-> b, attributes |-> t.current_attributes]
            ELSE t.grid[i][j]]]]

\* u is the buffer t after Print(b), as the claim describes it.
PrintPost(t, u, b) ==
    IF b \in {BEL, BS, TAB, LF, CR}
    THEN u = process_action(t, DedicatedAction(b))
    ELSE /\ u.status = "Ok"
         /\ InGrid(u.grid, t.cursor_row, t.cursor_col)
         /\ t.cursor_col < t.cols - 1
               => u = [Written(t, b) EXCEPT !.cursor_col = t.cursor_col + 1]
         /\ (t.cursor_col = t.cols - 1 /\ t.cursor_row < t.scroll_region[2])
               => u = [Written(t, b) EXCEPT !.cursor_col = 0,
                                            !.cursor_row = t.cursor_row + 1]
         /\ (t.cursor_col = t.cols - 1 /\ t.cursor_row = t.scroll_region[2])
               => /\ u.cursor_col = 0
                  /\ u.cursor_row = t.cursor_row
                  /\ \A r \in 0..(t.rows - 1), c \in 0..(t.cols - 1) :
                        /\ InGrid(u.grid, r, c)
                        /\ u.grid[r + 1][c + 1] =
                              IF r = t.scroll_region[2]
                              THEN BlankCell(t.current_attributes)
                              ELSE IF r >= t.scroll_region[1] /\ r < t.scroll_region[2]
                                   THEN Written(t, b).grid[r + 2][c + 1]
                                   ELSE Written(t, b).grid[r + 1][c + 1]

PrintEffect ==
    [][\A b \in PrintedBytes :
         (vt_last' = "process_action" /\ vt' = process_action(vt, Act("Print", <<b>>)))
            => PrintPost(vt, vt', b)]_vars

(***************************************************************************)
(* C35. EraseInDisplay(0) blanks exactly the cells from the cursor         *)
(* (inclusive) to the end of the screen in row-major order,                *)
(* EraseInDisplay(1) exactly those from (0, 0) to the cursor (inclusive),  *)
(* EraseInDisplay(2) and (3) every cell; a blanked cell is a space with    *)
(* current_attributes; the other cells and the cursor are unchanged, and   *)
(* any other mode changes nothing.                                         *)
(***************************************************************************)
\* The place of cell (row, col) in row-major order.
RowMajor(t, row, col) == row * t.cols + col

\* u is the buffer t after EraseInDisplay(mode), as the claim describes it.
EraseInDisplayPost(t, u, mode) ==
    LET at == RowMajor(t, t.cursor_row, t.cursor_col)
        blanked(row, col) ==
            \/ mode = 0 /\ RowMajor(t, row, col) >= at
            \/ mode = 1 /\ RowMajor(t, row, col) <= at
            \/ mode \in {2, 3}
    IN  IF mode \notin {0, 1, 2, 3} THEN u = t
        ELSE /\ u.status = "Ok"
             /\ u.cursor_row = t.cursor_row /\ u.cursor_col = t.cursor_col
             /\ u.current_attributes = t.current_attributes
             /\ Len(u.grid) = t.rows
             /\ \A i \in 1..t.rows :
                   /\ Len(u.grid[i]) = t.cols
                   /\ \A j \in 1..t.cols :
                         u.grid[i][j] =
                             IF blanked(i - 1, j - 1)
                             THEN BlankCell(t.current_attributes)
                             ELSE t.grid[i][j]

EraseInDisplayEffect ==
    [][\A mode \in Counts \cup {4} :
         (vt_last' = "process_action" /\ vt' = process_action(vt, Act("EraseInDisplay", <<mode>>)))
            => EraseInDisplayPost(vt, vt', mode)]_vars

(***************************************************************************)
(* C33. Tab moves the cursor column to the smallest multiple of 8 strictly *)
(* greater than the current column, clamped to cols-1; the row and the     *)
(* grid are unchanged, and Tab at column cols-1 leaves the cursor where it *)
(* is.                                                                     *)
(***************************************************************************)
\* The smallest multiple of 8 strictly greater than col.
NextTabStop(col) ==
    CHOOSE m \in (col + 1)..(col + 8) :
        m % 8 = 0 /\ \A k \in (col + 1)..(m - 1) : k % 8 # 0

\* u is the buffer t after Tab, as the claim describes it.
TabPost(t, u) ==
    /\ u = [t EXCEPT !.cursor_col = Min(NextTabStop(t.cursor_col), t.cols - 1)]
    /\ t.cursor_col = t.cols - 1 => u = t

TabEffect ==
    [][(\/ vt_last' = "Tab"
        \/ vt_last' = "process_action" /\ vt' = process_action(vt, Act("Tab", <<>>)))
          => TabPost(vt, vt')]_vars

\* Two Tabs on a row of 20 columns: 0 to 8 and 8 to 16, neither clamped.
TabEffectWitness ==
    vt_last = "Tab" /\ vt.cols = 20 /\ vt.cursor_col = 16 /\ vt_steps = 2

(***************************************************************************)
(* C36. get_color(v) of a value with bit 24 set is "#RRGGBB" made of the   *)
(* three low bytes, whatever the palette holds, so after                   *)
(* SetGraphicsRendition([38, 2, r, g, b]) with r, g, b in 0..255,          *)
(* get_color of the foreground colour is the two-digit upper-case hex of   *)
(* r, g, b; of an untagged value below 256 it is the palette entry; of     *)
(* every other untagged value it is "#FFFFFF".                             *)
(***************************************************************************)
GetColorTotal ==
    /\ [](/\ \A tv \in TaggedValues : get_color(vt, tv[1]) = tv[2]
          /\ \A v \in UntaggedValues :
                get_color(vt, v) = IF v < 256 THEN vt.color_palette[v + 1]
                                   ELSE "#FFFFFF")
    /\ [][\A tc \in TrueColours :
            (/\ vt_last' = "process_action"
             /\ vt' = process_action(vt, Act("SetGraphicsRendition",
                                             <<38, 2, tc[1], tc[2], tc[3]>>)))
            => /\ vt'.current_attributes.fg_color # None
               /\ get_color(vt', vt'.current_attributes.fg_color[1]) = tc[4]]_vars

\* Palette entries 5 and 255 were overwritten, then SGR 38;2;0;171;9 set
\* the foreground colour.
GetColorTotalWitness ==
    /\ vt_steps = 3
    /\ vt.color_palette[6] = "red"
    /\ vt.color_palette[256] = "red"
    /\ vt.current_attributes.fg_color = Some(RGB_TAG + 43785)
    /\ get_color(vt, RGB_TAG + 43785) = "#00AB09"

(***************************************************************************)
(* C37. Among any max_escape_len + 1 consecutive bytes at least one leaves *)
(* the parser in Normal: an unterminated CSI or OSC is abandoned after a   *)
(* bounded number of bytes, and later bytes are parsed from Normal again.  *)
(***************************************************************************)
BoundedEscape ==
    /\ stream_run < max_escape_len + 1
    /\ stream_run > 0 <=> stream.state # "Normal"

\* A CSI that no byte terminated was abandoned by the byte that filled the
\* accumulator: max_escape_len bytes left the parser outside Normal, the
\* next one left it in Normal and yielded nothing.
BoundedEscapeWitness ==
    /\ stream_last.state = "Csi"
    /\ Len(stream_last.escape_buffer) = max_escape_len
    /\ stream_last.byte = LF
    /\ stream.state = "Normal"
    /\ stream.actions = <<>>
    /\ stream_run = 0

(***************************************************************************)
(* C38. Each byte yields at most one action; in Csi or Osc a byte that     *)
(* neither terminates the sequence nor overflows the accumulator yields    *)
(* nothing and leaves the state unchanged, so BS, TAB, LF, CR and ESC in a *)
(* CSI, and BS, TAB, LF, CR in an OSC, are accumulated: not executed and   *)
(* not taken as the start of a new sequence.                               *)
(***************************************************************************)
\* The byte ends the sequence the parser was in.
Terminates(before, byte) ==
    \/ before.state = "Csi" /\ byte >= 64 /\ byte <= 126
    \/ before.state = "Osc" /\ byte = BEL
    \/ /\ before.state = "Osc" /\ byte = BACKSLASH
       /\ before.escape_buffer # <<>>
       /\ before.escape_buffer[Len(before.escape_buffer)] = ESC

\* The byte makes the accumulator longer than max_escape_len.
Overflows(before) == Len(before.escape_buffer) + 1 > max_escape_len

OneActionPerByte ==
    stream_last.state # "none" =>
        /\ Len(stream.actions) <= 1
        /\ (/\ stream_last.state \in {"Csi", "Osc"}
            /\ ~Terminates(stream_last, stream_last.byte)
            /\ ~Overflows(stream_last))
              => /\ stream.actions = <<>>
                 /\ stream.state = stream_last.state
                 /\ stream.escape_buffer =
                        Append(stream_last.escape_buffer, stream_last.byte)

\* A line feed, then an ESC, inside a CSI: both were accumulated.
OneActionPerByteWitness ==
    /\ stream.state = "Csi"
    /\ stream.escape_buffer = <<ESC, LBRACKET, LF, ESC>>
    /\ stream_last.byte = ESC
    /\ stream.actions = <<>>

=============================================================================
